---- MODULE Spec2Model ----
(***************************************************************************)
(* VoxelVerse: the gesture-driven voxel editor.                            *)
(*                                                                         *)
(* The model follows src/App.tsx (world store, undo/redo stacks, the       *)
(* gesture dispatcher handleTrackingUpdate and its cooldown),              *)
(* src/components/HandTracker.tsx (the per-frame loop predictWebcam, its   *)
(* emission rule, and the React effect that captures onUpdate) and the     *)
(* gesture classifier detectGesture (src/unnamed/part_000).                *)
(*                                                                         *)
(* Spec and the specifications named after it follow the editor as a       *)
(* whole.  SpecClassify, SpecMapper and SpecSampler follow detectGesture,  *)
(* toScreenSpace and sampleColorAt called on their own, over grids of      *)
(* arguments; SpecTracker follows the frame loop on every kind of          *)
(* detector result, SpecWindow follows the window sampleColorAt reads.    *)
(* SpecRender follows the handlers of App with the state updates of the    *)
(* frame loop queued until React renders; SpecCamera follows the tracking  *)
(* effect run by run: camera acquisition, loadeddata, animation frames,    *)
(* cleanup, the error flags and their retry buttons.                       *)
(*                                                                         *)
(* React is modelled as follows.  A state variable holds the value React   *)
(* will render next.  A callback created by a render is a closure over     *)
(* the values of that render; the closures that matter are kept as         *)
(* variables of their own (undoHistory, redoFuture, loops).  Every handler *)
(* is one action that ends with the commit React schedules for it: the     *)
(* re-render of App (which re-creates the callbacks whose dependency       *)
(* arrays changed) and the effects whose dependencies changed.  In         *)
(* SpecRender the render of a frame-loop handler is a step of its own.     *)
(*                                                                         *)
(* The cooldown reads the clock only as the difference                     *)
(* performance.now() - lastActionTimeRef.current; the model keeps that     *)
(* difference (elapsed): it grows as time passes and drops to 0 when a     *)
(* handler stores now in lastActionTimeRef.  Both start at 0 on page load. *)
(* The only use of the difference is the test `< DEBOUNCE_MS`, so elapsed  *)
(* is followed up to DEBOUNCE_MS and stays there: DEBOUNCE_MS stands for   *)
(* "DEBOUNCE_MS or more".                                                  *)
(*                                                                         *)
(* Numbers: time is in milliseconds, landmark coordinates and thresholds   *)
(* in thousandths of the normalised video size, confidences in hundredths. *)
(***************************************************************************)
EXTENDS Integers, Sequences, FiniteSets, TLC

VARIABLES
  voxels,          \* App state `voxels`: id -> VoxelData
  voxelsRef,       \* voxelsRef.current
  updateQueue,     \* state updates queued for the next render, oldest first
  permissionError, \* HandTracker state `permissionError`
  modelLoadError,  \* HandTracker state `modelLoadError`
  handLandmarker,  \* handLandmarkerRef.current is set
  runs,            \* runs of the tracking effect that called startCamera, oldest first
  video,           \* videoRef.current: the run whose stream and predictWebcam it holds
  frameRequests,   \* runs whose predictWebcam waits in requestAnimationFrame
  animationFrameRef, \* the run whose request animationFrameRef.current names
  history,         \* App state `history`
  future,          \* App state `future`
  undoHistory,     \* `history` as captured by the rendered handleUndo
  redoFuture,      \* `future` as captured by the rendered handleRedo
  mode,            \* App state `mode`
  selectedColor,   \* App state `selectedColor`
  currentGesture,  \* App state `currentGesture`
  elapsed,         \* performance.now() - lastActionTimeRef.current
  gridPos,         \* gridPosRef.current
  isActive,        \* HandTracker state `isActive`
  isModelLoading,  \* HandTracker state `isModelLoading`
  loops,           \* the live frame loops, each the closure its effect run captured
  lastGesture,     \* lastGestureRef.current
  gestureSettings, \* App state `gestureSettings`
  settingsRef,     \* HandTracker's settingsRef.current
  trackSettings,   \* `gestureSettings` as captured by App's memoized handleTrackingUpdate
  timers,          \* pending auto-save timeouts, each with the `voxels` it closed over
  persisted,       \* localStorage item 'voxelverse_data'
  loaded,          \* whether loadWorld has run
  colorHistory,    \* HandTracker's module-level rolling buffer `colorHistory`
  last,            \* observer: what the latest step did
  trip,            \* observer: progress of a place; undo; redo sequence
  call             \* observer: the latest call of a function followed on its own

vars == <<voxels, voxelsRef, history, future, undoHistory, redoFuture, mode,
          selectedColor, currentGesture, elapsed, gridPos,
          isActive, isModelLoading, loops, lastGesture,
          gestureSettings, settingsRef, trackSettings,
          timers, persisted, loaded, colorHistory, updateQueue, last, trip, call,
          permissionError, modelLoadError, handLandmarker, runs, video,
          frameRequests, animationFrameRef>>

settingsVars == <<gestureSettings, settingsRef, trackSettings>>
storageVars == <<persisted, loaded>>
cameraVars == <<permissionError, modelLoadError, handLandmarker, runs, video,
                frameRequests, animationFrameRef>>
calcVars == <<colorHistory, call, updateQueue, cameraVars>>

-----------------------------------------------------------------------------
(* Bounds of the model *)

MaxHist == 2       \* recorded actions kept in History and Future together
TimeStep == 75     \* granularity of the clock, ms
MaxPending == 2    \* handler calls whose state updates await one render

(* Program constants *)

DEBOUNCE_MS == 150
GESTURE_CONFIDENCE_MIN == 60
PinchThreshold == 35
GrabThreshold == 150
CurlThreshold == 200

Modes == {"VIEW", "BUILD", "DELETE", "COLOR"}
COLORS == {"#ef4444", "#06b6d4"}
DefaultColor == "#ef4444"
Undefined == "undefined"

(* The cells the cursor rests on: gridPosRef starts at the origin, and
   Scene3D's raycast, rounded, moves it over the plane z = 0. *)
Origin == <<0, 0, 0>>
Cells == {Origin, <<-1, 12, 0>>}

-----------------------------------------------------------------------------
(* Template literal `${x},${y},${z}`: decimal rendering of integers *)

DigitStr(d) ==
  CASE d = 0 -> "0" [] d = 1 -> "1" [] d = 2 -> "2" [] d = 3 -> "3"
    [] d = 4 -> "4" [] d = 5 -> "5" [] d = 6 -> "6" [] d = 7 -> "7"
    [] d = 8 -> "8" [] d = 9 -> "9"

RECURSIVE NatStr(_)
NatStr(n) == IF n < 10 THEN DigitStr(n) ELSE NatStr(n \div 10) \o DigitStr(n % 10)

NumStr(n) == IF n < 0 THEN "-" \o NatStr(-n) ELSE NatStr(n)

VoxelId(x, y, z) == NumStr(x) \o "," \o NumStr(y) \o "," \o NumStr(z)

(* JavaScript Map.set / Map.delete on a copy *)
MapSet(m, k, v) == [i \in DOMAIN m \cup {k} |-> IF i = k THEN v ELSE m[i]]
MapDelete(m, k) == [i \in DOMAIN m \ {k} |-> m[i]]
EmptyMap == [i \in {} |-> 0]

(* prev.slice(0, -1) *)
SliceFront(s) == SubSeq(s, 1, Len(s) - 1)

-----------------------------------------------------------------------------
(* Gesture classifier (gestureService) *)

(* A landmark is <<x, y, z>>; landmarks[k] of the source is Lm(landmarks, k). *)
Lm(landmarks, k) == landmarks[k + 1]

(* A `landmarks` argument that is null or undefined: a value that is no array *)
NoLandmarks == [k \in {0} |-> 0]

(* getDistance returns the square root of this sum; the classifier only ever
   compares a distance with a positive threshold, and sqrt(s) < t exactly
   when s < t*t, so the comparisons are made on the squares. *)
getDistanceSq(p1, p2) ==
  (p1[1] - p2[1]) * (p1[1] - p2[1]) + (p1[2] - p2[2]) * (p1[2] - p2[2])
    + (p1[3] - p2[3]) * (p1[3] - p2[3])

DistBelow(dSq, t) == dSq < t * t
DistAbove(dSq, t) == dSq > t * t

(* isRingExtended testing the default grab threshold instead of 0.2 *)
isRingExtendedLoose(dSq) == DistAbove(dSq, GrabThreshold)

isRingExtended(dSq) == DistAbove(dSq, CurlThreshold)
isPinkyExtended(dSq) == DistAbove(dSq, CurlThreshold)

DEFAULT_GESTURE_SETTINGS == [pinchThreshold |-> PinchThreshold, grabThreshold |-> GrabThreshold]

(* Values onUpdateSettings receives: the pinch slider at its lowest stop, and
   settings that carry the optional minConfidence. *)
TightPinch == [DEFAULT_GESTURE_SETTINGS EXCEPT !.pinchThreshold = 10]
HighConfidence ==
  [pinchThreshold |-> PinchThreshold, grabThreshold |-> GrabThreshold, minConfidence |-> 98]
SettingsValues == {DEFAULT_GESTURE_SETTINGS, TightPinch, HighConfidence}

(* gestureSettings.minConfidence ?? GESTURE_CONFIDENCE_MIN *)
MinConfidence(settings) ==
  IF "minConfidence" \in DOMAIN settings THEN settings.minConfidence
  ELSE GESTURE_CONFIDENCE_MIN

Result(type, confidence) == [type |-> type, confidence |-> confidence]

(* detectGesture returning on the pinch test before the fist test *)
detectGesturePinchFirst(landmarks, settings) ==
  IF landmarks = NoLandmarks \/ Len(landmarks) < 21 THEN Result("NONE", 0)
  ELSE IF DistBelow(getDistanceSq(Lm(landmarks, 4), Lm(landmarks, 8)),
                    settings.pinchThreshold)
    THEN Result("PINCH", 95)
  ELSE IF \A tip \in {8, 12, 16, 20} :
            DistBelow(getDistanceSq(Lm(landmarks, 0), Lm(landmarks, tip)),
                      settings.grabThreshold)
    THEN Result("GRAB", 90)
  ELSE Result("NONE", 0)

(* detectGesture requiring a curled ring and pinky for a pinch *)
detectGesturePinchCurled(landmarks, settings) ==
  IF landmarks = NoLandmarks \/ Len(landmarks) < 21 THEN Result("NONE", 0)
  ELSE IF \A tip \in {8, 12, 16, 20} :
            DistBelow(getDistanceSq(Lm(landmarks, 0), Lm(landmarks, tip)),
                      settings.grabThreshold)
    THEN Result("GRAB", 90)
  ELSE IF /\ DistBelow(getDistanceSq(Lm(landmarks, 4), Lm(landmarks, 8)),
                       settings.pinchThreshold)
          /\ \A tip \in {16, 20} :
                DistBelow(getDistanceSq(Lm(landmarks, 0), Lm(landmarks, tip)),
                          CurlThreshold)
    THEN Result("PINCH", 95)
  ELSE Result("NONE", 0)

detectGesture(landmarks, settings) ==
  IF landmarks = NoLandmarks \/ Len(landmarks) < 21 THEN Result("NONE", 0)
  ELSE
    LET pinchThreshold == settings.pinchThreshold
        grabThreshold == settings.grabThreshold
        thumbTip == Lm(landmarks, 4)
        indexTip == Lm(landmarks, 8)
        middleTip == Lm(landmarks, 12)
        ringTip == Lm(landmarks, 16)
        pinkyTip == Lm(landmarks, 20)
        wrist == Lm(landmarks, 0)
        thumbExt == getDistanceSq(wrist, thumbTip)
        indexExt == getDistanceSq(wrist, indexTip)
        middleExt == getDistanceSq(wrist, middleTip)
        ringExt == getDistanceSq(wrist, ringTip)
        pinkyExt == getDistanceSq(wrist, pinkyTip)
        pinchDist == getDistanceSq(thumbTip, indexTip)
        isPinch == DistBelow(pinchDist, pinchThreshold)
        isIndexExtended == DistAbove(indexExt, grabThreshold)
        isMiddleExtended == DistAbove(middleExt, grabThreshold)
        isRingCurled == DistBelow(ringExt, CurlThreshold)
        isPinkyCurled == DistBelow(pinkyExt, CurlThreshold)
    IN IF /\ DistBelow(indexExt, grabThreshold) /\ DistBelow(middleExt, grabThreshold)
          /\ DistBelow(ringExt, grabThreshold) /\ DistBelow(pinkyExt, grabThreshold)
         THEN Result("GRAB", 90)
       ELSE IF isPinch THEN Result("PINCH", 95)
       ELSE IF isIndexExtended /\ isMiddleExtended /\ isRingCurled /\ isPinkyCurled
         THEN Result("VICTORY", 85)
       ELSE IF isIndexExtended /\ ~isMiddleExtended /\ isRingCurled /\ isPinkyCurled
         THEN Result("POINT", 80)
       ELSE IF /\ DistAbove(thumbExt, CurlThreshold) /\ ~isIndexExtended /\ ~isMiddleExtended
               /\ ~isRingExtended(ringExt) /\ ~isPinkyExtended(pinkyExt)
         THEN Result("THUMBS_UP", 80)
       ELSE IF /\ isIndexExtended /\ isMiddleExtended
               /\ DistAbove(ringExt, CurlThreshold) /\ DistAbove(pinkyExt, CurlThreshold)
         THEN Result("OPEN_HAND", 95)
       ELSE Result("NONE", 0)

(* Hand poses the detector delivers: 21 landmarks, the wrist at Wrist, each
   fingertip straight above it at its extension, the thumb tip shifted
   sideways by thumbDx; the remaining joints rest on the wrist. *)
Wrist == <<500, 900, 0>>
Tip(ext) == <<500, 900 - ext, 0>>

Hand(thumbDx, thumbExt, indexExt, middleExt, ringExt, pinkyExt) ==
  [k \in 1..21 |->
     CASE k = 5 -> <<500 + thumbDx, 900 - thumbExt, 0>>
       [] k = 9 -> Tip(indexExt)
       [] k = 13 -> Tip(middleExt)
       [] k = 17 -> Tip(ringExt)
       [] k = 21 -> Tip(pinkyExt)
       [] OTHER -> Wrist]

FistPose == Hand(0, 100, 100, 100, 100, 100)        \* a fist, thumb on the index tip
PinchPose == Hand(20, 300, 300, 300, 300, 300)      \* thumb and index tips 20 apart
VictoryPose == Hand(0, 100, 300, 300, 100, 100)
Poses == {FistPose, PinchPose}

(* Arguments detectGesture is called with when followed on its own: hands over
   a grid of fingertip extensions on, between and beyond the thresholds, the
   thumb tip beside the index tip or away from it; arrays that are shorter or
   longer than a hand; no array.  The thresholds are those of the sliders. *)
ExtValues == {100, 150, 175, 200, 250, 300}
ThumbExtValues == {100, 200, 300}
ThumbDxValues == {0, 10, 20, 35, 40}
GridHands ==
  {Hand(dx, te, ie, me, re, pe) :
     dx \in ThumbDxValues, te \in ThumbExtValues,
     ie \in ExtValues, me \in ExtValues, re \in ExtValues, pe \in ExtValues}
OpenPose == Hand(100, 300, 300, 300, 300, 300)
OddLengths == {0, 1, 5, 12, 20, 22, 23}
Resized(pose, n) == [k \in 1..n |-> IF k <= Len(pose) THEN pose[k] ELSE Wrist]
OddPoses ==
  {NoLandmarks} \cup
  {Resized(pose, n) : pose \in {FistPose, PinchPose, VictoryPose, OpenPose},
                      n \in OddLengths}
ClassifierSettings ==
  [pinchThreshold : {10, PinchThreshold}, grabThreshold : {GrabThreshold, 250}]

(* Results the frame loop is followed on: no hand, a hand of each gesture
   class and one of none, and arrays of 5 and of 12 landmarks. *)
PointPose == Hand(0, 100, 300, 100, 100, 100)
ThumbsUpPose == Hand(100, 300, 100, 100, 175, 100)
LimpPose == Hand(100, 100, 100, 100, 175, 100)
PartialPoses == {Resized(FistPose, 5), Resized(FistPose, 12)}
TrackerPoses ==
  {FistPose, PinchPose, VictoryPose, OpenPose, PointPose, ThumbsUpPose, LimpPose}
    \cup PartialPoses

(* detectGesture is pure: its results for the poses above, computed once *)
Classified ==
  [pose \in Poses \cup TrackerPoses, st \in SettingsValues |-> detectGesture(pose, st)]

-----------------------------------------------------------------------------
(* App: world store and history (src/App.tsx) *)

(* VoxelData with the id built from the coordinates in another order *)
VoxelDataSwapped(x, y, z, color) ==
  [id |-> VoxelId(y, x, z), x |-> x, y |-> y, z |-> z, color |-> color]

VoxelData(x, y, z, color) ==
  [id |-> VoxelId(x, y, z), x |-> x, y |-> y, z |-> z, color |-> color]

HistoryAction(type, voxel) == [type |-> type, voxel |-> voxel]

(* What a handler leaves behind: the refs and the state it has set. *)
Outcome(res, el, ref, vox, hist, fut) ==
  [res |-> res, elapsed |-> el, voxelsRef |-> ref, voxels |-> vox,
   history |-> hist, future |-> fut]

(* An early return: nothing is touched. *)
Dropped(why) == Outcome(why, elapsed, voxelsRef, voxels, history, future)

(* handlePlaceVoxel without the voxelsRef.current.has(id) return *)
handlePlaceVoxelOverwrite(x, y, z, color) ==
  LET id == VoxelId(x, y, z)
      newVoxel == [id |-> id, x |-> x, y |-> y, z |-> z, color |-> color]
  IN IF elapsed < DEBOUNCE_MS THEN Dropped("cooldown")
     ELSE Outcome("ok", 0,
                  MapSet(voxelsRef, id, newVoxel),
                  MapSet(voxels, id, newVoxel),
                  Append(history, HistoryAction("PLACE", newVoxel)),
                  <<>>)

(* handlePlaceVoxel without setFuture([]) *)
handlePlaceVoxelKeepsFuture(x, y, z, color) ==
  LET id == VoxelId(x, y, z)
      newVoxel == [id |-> id, x |-> x, y |-> y, z |-> z, color |-> color]
  IN IF elapsed < DEBOUNCE_MS THEN Dropped("cooldown")
     ELSE IF id \in DOMAIN voxelsRef THEN Dropped("occupied")
     ELSE Outcome("ok", 0,
                  MapSet(voxelsRef, id, newVoxel),
                  MapSet(voxels, id, newVoxel),
                  Append(history, HistoryAction("PLACE", newVoxel)),
                  future)

(* handlePlaceVoxel with the cooldown test written <= *)
handlePlaceVoxelLateCooldown(x, y, z, color) ==
  LET id == VoxelId(x, y, z)
      newVoxel == [id |-> id, x |-> x, y |-> y, z |-> z, color |-> color]
  IN IF elapsed <= DEBOUNCE_MS THEN Dropped("cooldown")
     ELSE IF id \in DOMAIN voxelsRef THEN Dropped("occupied")
     ELSE Outcome("ok", 0,
                  MapSet(voxelsRef, id, newVoxel),
                  MapSet(voxels, id, newVoxel),
                  Append(history, HistoryAction("PLACE", newVoxel)),
                  <<>>)

(* handlePlaceVoxel with lastActionTime.current = now ahead of the
   voxelsRef.current.has(id) return *)
handlePlaceVoxelStampsRejected(x, y, z, color) ==
  LET id == VoxelId(x, y, z)
      newVoxel == VoxelData(x, y, z, color)
  IN IF elapsed < DEBOUNCE_MS THEN Dropped("cooldown")
     ELSE IF id \in DOMAIN voxelsRef
       THEN Outcome("occupied", 0, voxelsRef, voxels, history, future)
     ELSE Outcome("ok", 0,
                  MapSet(voxelsRef, id, newVoxel),
                  MapSet(voxels, id, newVoxel),
                  Append(history, HistoryAction("PLACE", newVoxel)),
                  <<>>)

(* handlePlaceVoxel(x, y, z, true) of a render whose selectedColor is `color` *)
handlePlaceVoxel(x, y, z, color) ==
  LET id == VoxelId(x, y, z)
      newVoxel == VoxelData(x, y, z, color)
  IN IF elapsed < DEBOUNCE_MS THEN Dropped("cooldown")
     ELSE IF id \in DOMAIN voxelsRef THEN Dropped("occupied")
     ELSE Outcome("ok", 0,
                  MapSet(voxelsRef, id, newVoxel),
                  MapSet(voxels, id, newVoxel),
                  Append(history, HistoryAction("PLACE", newVoxel)),
                  <<>>)

(* handleDeleteVoxel without the !voxelsRef.current.has(id) return: the
   recorded voxel of an empty cell is undefined *)
handleDeleteVoxelUnchecked(x, y, z) ==
  LET id == VoxelId(x, y, z)
      voxelToDelete == IF id \in DOMAIN voxelsRef THEN voxelsRef[id] ELSE Undefined
  IN IF elapsed < DEBOUNCE_MS THEN Dropped("cooldown")
     ELSE Outcome("ok", 0,
                  MapDelete(voxelsRef, id),
                  MapDelete(voxels, id),
                  Append(history, HistoryAction("DELETE", voxelToDelete)),
                  <<>>)

(* handleDeleteVoxel without the cooldown return *)
handleDeleteVoxelNoCooldown(x, y, z) ==
  LET id == VoxelId(x, y, z)
  IN IF id \notin DOMAIN voxelsRef THEN Dropped("empty")
     ELSE Outcome("ok", 0,
                  MapDelete(voxelsRef, id),
                  MapDelete(voxels, id),
                  Append(history, HistoryAction("DELETE", voxelsRef[id])),
                  <<>>)

(* handleDeleteVoxel(x, y, z, true) *)
handleDeleteVoxel(x, y, z) ==
  LET id == VoxelId(x, y, z)
  IN IF elapsed < DEBOUNCE_MS THEN Dropped("cooldown")
     ELSE IF id \notin DOMAIN voxelsRef THEN Dropped("empty")
     ELSE Outcome("ok", 0,
                  MapDelete(voxelsRef, id),
                  MapDelete(voxels, id),
                  Append(history, HistoryAction("DELETE", voxelsRef[id])),
                  <<>>)

(* The handler undoing its edit when the remote call reports a failure *)
AwaitApiRollback(out, result) ==
  IF result THEN out ELSE Outcome("rollback", elapsed, voxelsRef, voxels, history, future)

(* await apiService.placeVoxel(newVoxel) / deleteVoxel(id): the last statement
   of the handler; its result is dropped and nothing runs after it. *)
ApiResults == {TRUE, FALSE}
AwaitApi(out, result) == out

(* The [voxels] effect without voxelsRef.current = voxels *)
SyncVoxelsRefSkipped(refAfterHandler, newVoxels) == refAfterHandler

(* The effect on [voxels]: voxelsRef.current = voxels.  It runs in the commit
   that follows every setVoxels, after the handler's own writes to the ref. *)
SyncVoxelsRef(refAfterHandler, newVoxels) == newVoxels

(* handleUndo re-creating a deleted voxel in the selected color *)
UndoVoxelsSelectedColor(action, vox) ==
  IF action.type = "PLACE" THEN MapDelete(vox, action.voxel.id)
  ELSE IF action.type = "DELETE"
    THEN MapSet(vox, action.voxel.id, [action.voxel EXCEPT !.color = selectedColor])
  ELSE vox

(* The inverse of a recorded action applied to the store (handleUndo) *)
UndoVoxels(action, vox) ==
  IF action.type = "PLACE" THEN MapDelete(vox, action.voxel.id)
  ELSE IF action.type = "DELETE" THEN MapSet(vox, action.voxel.id, action.voxel)
  ELSE vox

(* handleRedo's store update with the branches of handleUndo *)
RedoVoxelsAsUndo(action, vox) == UndoVoxels(action, vox)

(* A recorded action applied again (handleRedo) *)
RedoVoxels(action, vox) ==
  IF action.type = "PLACE" THEN MapSet(vox, action.voxel.id, action.voxel)
  ELSE IF action.type = "DELETE" THEN MapDelete(vox, action.voxel.id)
  ELSE vox

(* handleUndo behind the cooldown of the edit handlers *)
handleUndoCooldown(hist) ==
  IF elapsed < DEBOUNCE_MS THEN Dropped("cooldown")
  ELSE IF Len(hist) = 0 THEN Dropped("empty")
  ELSE LET action == hist[Len(hist)]
       IN Outcome("ok", 0, voxelsRef,
                  UndoVoxels(action, voxels),
                  SliceFront(history),
                  Append(future, action))

(* handleUndo of a render whose history is `hist` *)
handleUndo(hist) ==
  IF Len(hist) = 0 THEN Dropped("empty")
  ELSE LET action == hist[Len(hist)]
       IN Outcome("ok", elapsed, voxelsRef,
                  UndoVoxels(action, voxels),
                  SliceFront(history),
                  Append(future, action))

(* handleRedo without the future.length === 0 return: the action read from an
   empty Future is undefined and is pushed on History before action.type
   throws *)
handleRedoUnchecked(fut) ==
  IF Len(fut) = 0
    THEN Outcome("ok", elapsed, voxelsRef, voxels, Append(history, Undefined),
                 SliceFront(future))
    ELSE LET action == fut[Len(fut)]
         IN Outcome("ok", elapsed, voxelsRef,
                    RedoVoxels(action, voxels),
                    Append(history, action),
                    SliceFront(future))

(* handleRedo of a render whose future is `fut` *)
handleRedo(fut) ==
  IF Len(fut) = 0 THEN Dropped("empty")
  ELSE LET action == fut[Len(fut)]
       IN Outcome("ok", elapsed, voxelsRef,
                  RedoVoxels(action, voxels),
                  Append(history, action),
                  SliceFront(future))

-----------------------------------------------------------------------------
(* App: gesture dispatcher *)

isSamplingActive(m) == m = "COLOR" \/ m = "BUILD"

(* The onUpdate a HandTracker effect run captures: handleTrackingUpdate of the
   render it ran in, which closes over that render's mode and, through
   handlePlaceVoxel, its selectedColor, and over the gestureSettings of the
   render that last re-created it (its dependencies are handlePlaceVoxel,
   handleDeleteVoxel and mode); isColorPickingMode is the prop of the same
   render, read by predictWebcam. *)
Closure(m, color, settings) ==
  [mode |-> m, selectedColor |-> color, gestureSettings |-> settings,
   isColorPickingMode |-> isSamplingActive(m)]

TrackingState(landmarks, gesture, confidence, sampledColor) ==
  [isTracking |-> TRUE, landmarks |-> landmarks, gesture |-> gesture,
   confidence |-> confidence, sampledColor |-> sampledColor]

(* The color handleTrackingUpdate leaves selected *)
AutoPick(cb, state) ==
  IF /\ state.sampledColor # Undefined
     /\ state.sampledColor # "#ffffff" /\ state.sampledColor # "#000000"
     /\ (cb.mode = "COLOR" \/ (cb.mode = "BUILD" /\ state.gesture = "GRAB"))
    THEN state.sampledColor
    ELSE selectedColor

(* The edit handleTrackingUpdate attempts: "place", "delete" or "none" *)
EditFor(cb, state) ==
  LET minConf == MinConfidence(cb.gestureSettings)
  IN IF state.gesture = "PINCH" /\ state.confidence >= minConf
       THEN (IF cb.mode = "BUILD" \/ cb.mode = "COLOR" THEN "place" ELSE "none")
     ELSE IF state.gesture = "GRAB" /\ state.confidence >= minConf
       THEN (IF cb.mode = "DELETE" THEN "delete" ELSE "none")
     ELSE "none"

(* handleTrackingUpdate(state) as captured in closure cb *)
handleTrackingUpdate(cb, state) ==
  LET edit == IF state.isTracking THEN EditFor(cb, state) ELSE "none"
      out == CASE edit = "place" ->
                    handlePlaceVoxel(gridPos[1], gridPos[2], gridPos[3], cb.selectedColor)
               [] edit = "delete" ->
                    handleDeleteVoxel(gridPos[1], gridPos[2], gridPos[3])
               [] OTHER -> Dropped("none")
  IN [edit |-> edit, out |-> out,
      currentGesture |-> state.gesture,
      selectedColor |-> IF state.isTracking THEN AutoPick(cb, state) ELSE selectedColor]

-----------------------------------------------------------------------------
(* HandTracker: the frame loop (src/components/HandTracker.tsx) *)

(* results.landmarks of detectForVideo: no hand, or one hand (numHands: 1) *)
DetectorResults == {<<>>} \cup {<<pose>> : pose \in Poses}

TrackerResults == {<<>>} \cup {<<pose>> : pose \in TrackerPoses}

(* What sampleColorAt can return for a frame: nothing, or a hex color *)
SampleOutcomes == {Undefined, "#06b6d4"}

(* The test that guards onUpdate for a frame with a hand, without the
   sampling flag *)
EmitsPoseNoSampling(cb, gestureType) ==
  \/ gestureType # lastGesture
  \/ gestureType = "PINCH" \/ gestureType = "GRAB"

(* The test that guards onUpdate for a frame with a hand *)
EmitsPose(cb, gestureType) ==
  \/ gestureType # lastGesture
  \/ gestureType = "PINCH" \/ gestureType = "GRAB"
  \/ cb.isColorPickingMode

(* onUpdate called for every frame without a hand *)
EmitsNoPoseAlways == TRUE

(* The test that guards onUpdate for a frame without a hand *)
EmitsNoPose == lastGesture # "NONE"

(* One processed video frame in the loop whose closure is cb: whether the pass
   throws, whether onUpdate is called, with which TrackingState, and the new
   lastGestureRef.  The pass reads landmarks[8].x and landmarks[4].x right
   after classifying, a TypeError when the array has no such element. *)
Frame(cb, results, sample) ==
  IF Len(results) > 0
    THEN LET landmarks == results[1]
             g == Classified[landmarks, settingsRef]
             sampledColor == IF cb.isColorPickingMode THEN sample ELSE Undefined
             emit == EmitsPose(cb, g.type)
         IN IF Len(landmarks) < 9
              THEN [threw |-> TRUE, emit |-> FALSE,
                    state |-> TrackingState(<<>>, "NONE", 0, Undefined),
                    lastGesture |-> lastGesture]
              ELSE [threw |-> FALSE, emit |-> emit,
                    state |-> TrackingState(landmarks, g.type, g.confidence, sampledColor),
                    lastGesture |-> IF emit THEN g.type ELSE lastGesture]
    ELSE [threw |-> FALSE, emit |-> EmitsNoPose,
          state |-> TrackingState(<<>>, "NONE", 0, Undefined),
          lastGesture |-> "NONE"]

(* The effect on [isActive, isModelLoading, isColorPickingMode]: the cleanup of
   the previous run cancels its loop; the new run starts the camera when
   tracking is active and the landmarker is loaded, and its loop calls the
   onUpdate of the render the effect ran in. *)
TrackerEffect(active, loading, m, color, settings) ==
  IF active /\ ~loading THEN {Closure(m, color, settings)} ELSE {}

-----------------------------------------------------------------------------
(* HandTracker: the coordinate mapper (toScreenSpace) *)

(* The numbers toScreenSpace computes with are quotients of its arguments; a
   number is kept as numerator over denominator, the denominator never 0. *)
Q(n, d) == [n |-> n, d |-> d]
QInt(k) == Q(k, 1)
QAdd(a, b) == Q(a.n * b.d + b.n * a.d, a.d * b.d)
QSub(a, b) == Q(a.n * b.d - b.n * a.d, a.d * b.d)
QMul(a, b) == Q(a.n * b.n, a.d * b.d)
QDiv(a, b) == Q(a.n * b.d, a.d * b.n)
QEq(a, b) == a.n * b.d = b.n * a.d
QGt(a, b) == (a.n * b.d - b.n * a.d) * (a.d * b.d) > 0

(* The aspect comparison with its sides exchanged *)
ScreenWiderFlipped(screenAspect, videoAspect) == QGt(videoAspect, screenAspect)

(* screenAspect > videoAspect *)
ScreenWider(screenAspect, videoAspect) == QGt(screenAspect, videoAspect)

toScreenSpace(x, y, videoWidth, videoHeight, screenWidth, screenHeight) ==
  IF videoWidth = 0 \/ videoHeight = 0 \/ screenWidth = 0 \/ screenHeight = 0
    THEN [x |-> x, y |-> y]
  ELSE
    LET videoAspect == Q(videoWidth, videoHeight)
        screenAspect == Q(screenWidth, screenHeight)
    IN IF ScreenWider(screenAspect, videoAspect)
         THEN LET scale == Q(screenWidth, videoWidth)
                  visualHeight == QMul(QInt(videoHeight), scale)
                  topOffset == QDiv(QSub(QInt(screenHeight), visualHeight), QInt(2))
              IN [x |-> x,
                  y |-> QDiv(QAdd(QMul(y, visualHeight), topOffset), QInt(screenHeight))]
         ELSE LET scale == Q(screenHeight, videoHeight)
                  visualWidth == QMul(QInt(videoWidth), scale)
                  leftOffset == QDiv(QSub(QInt(screenWidth), visualWidth), QInt(2))
              IN [x |-> QDiv(QAdd(QMul(x, visualWidth), leftOffset), QInt(screenWidth)),
                  y |-> y]

(* Arguments toScreenSpace is followed on: normalised coordinates, and widths
   and heights in pixels, negative and zero ones among them; 4 by 3 and 8 by 6
   have the same aspect. *)
Coordinates == {Q(0, 1), Q(1, 4), Q(1, 2), Q(1, 1)}
Widths == {-4, 0, 4, 8}
Heights == {-3, 0, 3, 6}

-----------------------------------------------------------------------------
(* HandTracker: the color sampler (sampleColorAt and its rolling buffer) *)

HISTORY_SIZE == 10

(* What reading the window gives: nothing (the window is empty or getImageData
   throws), or pixels, of which the sampler keeps the mean of each channel.
   A mean is <<r, g, b>>. *)
Unreadable == [readable |-> FALSE]
Window(mean) == [readable |-> TRUE, mean |-> mean]
White == <<250, 250, 250>>
OffWhite == <<250, 250, 240>>
Black == <<5, 5, 5>>
Windows == {Unreadable} \cup {Window(mean) : mean \in {White, OffWhite, Black}}

(* The window sampleColorAt reads: Math.floor(Math.max(0, Math.min(1, x)) *
   size) for x = n/d with d > 0 *)
FloorScaled(x, size) ==
  LET clamped == IF QGt(QInt(0), x) THEN QInt(0)
                 ELSE IF QGt(x, QInt(1)) THEN QInt(1) ELSE x
  IN (clamped.n * size) \div clamped.d

(* startX, startY, w, h as handed to getImageData, or no read at all when
   w <= 0 or h <= 0 *)
sampleWindow(x, y, width, height, radius) ==
  LET px == FloorScaled(x, width)
      py == FloorScaled(y, height)
      startX == IF px - radius > 0 THEN px - radius ELSE 0
      startY == IF py - radius > 0 THEN py - radius ELSE 0
      w == (IF width < px + radius THEN width ELSE px + radius) - startX + 1
      h == (IF height < py + radius THEN height ELSE py + radius) - startY + 1
  IN [read |-> ~(w <= 0 \/ h <= 0),
      startX |-> startX, startY |-> startY, w |-> w, h |-> h]

(* Arguments of the window: canvas sizes and scan radii, on the scale of the
   coordinates *)
CanvasWidths == {4, 8}
CanvasHeights == {3, 6}
Radii == {0, 1, 2}

(* colorHistory.push(sample); if (colorHistory.length > HISTORY_SIZE) shift() *)
Push(hist, sample) ==
  LET pushed == Append(hist, sample)
  IN IF Len(pushed) > HISTORY_SIZE THEN Tail(pushed) ELSE pushed

(* Sum of channel ch over the buffer; the average is the sum over the length *)
RECURSIVE ChannelSum(_, _)
ChannelSum(hist, ch) ==
  IF hist = <<>> THEN 0 ELSE hist[1][ch] + ChannelSum(Tail(hist), ch)

(* Math.round of the quotient sum / n, clamped to 0..255 *)
RoundClamp(sum, n) ==
  LET val == (2 * sum + n) \div (2 * n)
  IN IF val < 0 THEN 0 ELSE IF val > 255 THEN 255 ELSE val

HexDigit(d) ==
  CASE d = 0 -> "0" [] d = 1 -> "1" [] d = 2 -> "2" [] d = 3 -> "3"
    [] d = 4 -> "4" [] d = 5 -> "5" [] d = 6 -> "6" [] d = 7 -> "7"
    [] d = 8 -> "8" [] d = 9 -> "9" [] d = 10 -> "a" [] d = 11 -> "b"
    [] d = 12 -> "c" [] d = 13 -> "d" [] d = 14 -> "e" [] d = 15 -> "f"

(* toHex: toString(16).padStart(2, '0') of the rounded, clamped average *)
toHex(sum, n) ==
  LET val == RoundClamp(sum, n)
  IN HexDigit(val \div 16) \o HexDigit(val % 16)

(* rgbToHex of the averages of a buffer *)
rgbToHex(hist) ==
  "#" \o toHex(ChannelSum(hist, 1), Len(hist)) \o toHex(ChannelSum(hist, 2), Len(hist))
      \o toHex(ChannelSum(hist, 3), Len(hist))

(* The noise test made on the latest sample instead of the averages *)
IsNoiseLatest(hist) ==
  LET c == hist[Len(hist)]
  IN \/ c[1] > 245 /\ c[2] > 245 /\ c[3] > 245
     \/ c[1] < 10 /\ c[2] < 10 /\ c[3] < 10

(* avgR > 245 && avgG > 245 && avgB > 245, or all three < 10: an average
   sum / n exceeds 245 exactly when the sum exceeds 245 * n *)
IsNoise(hist) ==
  LET n == Len(hist)
  IN \/ \A ch \in 1..3 : ChannelSum(hist, ch) > 245 * n
     \/ \A ch \in 1..3 : ChannelSum(hist, ch) < 10 * n

(* sampleColorAt keeping a sample out of the buffer when the averages with it
   are rejected *)
sampleColorAtDropNoise(hist, window) ==
  IF ~window.readable THEN [ret |-> Undefined, colorHistory |-> hist]
  ELSE LET pushed == Push(hist, window.mean)
       IN IF IsNoise(pushed) THEN [ret |-> Undefined, colorHistory |-> hist]
          ELSE [ret |-> rgbToHex(pushed), colorHistory |-> pushed]

(* sampleColorAt with the buffer at hist: what it returns and the buffer it
   leaves *)
sampleColorAt(hist, window) ==
  IF ~window.readable THEN [ret |-> Undefined, colorHistory |-> hist]
  ELSE LET pushed == Push(hist, window.mean)
       IN [ret |-> IF IsNoise(pushed) THEN Undefined ELSE rgbToHex(pushed),
           colorHistory |-> pushed]

-----------------------------------------------------------------------------
(* App: persistence (loadWorld and the auto-save effect) *)

(* A localStorage item: absent (getItem returns null), the empty string, a
   text JSON.parse rejects, or the JSON text of a value.  A JSON value is
   null, a number, a plain object or an array; an array item is a voxel
   record, null or a number. *)
NoItem == [kind |-> "none"]
EmptyText == [kind |-> "empty"]
NotJson == [kind |-> "garbage"]
JsonText(value) == [kind |-> "json", value |-> value]
JNull == [t |-> "null"]
JNumber == [t |-> "number"]
JObject == [t |-> "object"]
JArray(items) == [t |-> "array", items |-> items]

(* Array.from(voxels.values()), in some order *)
RECURSIVE ValuesOf(_)
ValuesOf(m) ==
  IF DOMAIN m = {} THEN <<>>
  ELSE LET k == CHOOSE i \in DOMAIN m : TRUE
       IN <<m[k]>> \o ValuesOf(MapDelete(m, k))

(* JSON.stringify(arr) as stored by localStorage.setItem *)
Stringify(m) == JsonText(JArray(ValuesOf(m)))

(* v.id of an array item: a TypeError on null, undefined on a number *)
IsRecord(v) == "id" \in DOMAIN v
ItemId(v) == IF IsRecord(v) THEN v.id ELSE Undefined

(* parsed.forEach(v => map.set(v.id, v)) on an array *)
RECURSIVE ForEachSet(_, _)
ForEachSet(items, map) ==
  IF Len(items) = 0 THEN [threw |-> FALSE, map |-> map]
  ELSE IF Head(items) = JNull THEN [threw |-> TRUE, map |-> map]
  ELSE ForEachSet(Tail(items), MapSet(map, ItemId(Head(items)), Head(items)))

(* The try block of loadWorld on a truthy item: JSON.parse, then forEach *)
ParseSaved(saved) ==
  IF saved.kind = "garbage" THEN [threw |-> TRUE, map |-> EmptyMap]
  ELSE IF saved.value.t # "array" THEN [threw |-> TRUE, map |-> EmptyMap]
  ELSE ForEachSet(saved.value.items, EmptyMap)

(* apiService.getWorld: an empty world, also from its catch branch *)
RemoteOutcomes == {"ok", "error"}
getWorld(outcome) == <<>>

(* loadWorld: the world it sets and where it took it from *)
loadWorld(saved, remote) ==
  LET truthy == saved.kind \notin {"none", "empty"}
      local == IF truthy THEN ParseSaved(saved) ELSE [threw |-> TRUE, map |-> EmptyMap]
  IN IF truthy /\ ~local.threw
       THEN [from |-> "storage", map |-> local.map]
       ELSE [from |-> "remote-" \o remote,
             map |-> ForEachSet(getWorld(remote), EmptyMap).map]

(* Delay of the auto-save timeout, ms *)
SaveDelayMs == 1000

(* The auto-save effect without its cleanup *)
ScheduleSaveNoClear(pending, oldVoxels, newVoxels) ==
  pending \cup {[snapshot |-> newVoxels, delay |-> SaveDelayMs]}

(* The auto-save effect on [voxels]: the cleanup of the previous run clears
   its timeout, the new run sets one that closes over the new voxels. *)
Timer(snapshot) == [snapshot |-> snapshot, delay |-> SaveDelayMs]
ScheduleSave(pending, oldVoxels, newVoxels) ==
  (pending \ {Timer(oldVoxels)}) \cup {Timer(newVoxels)}

-----------------------------------------------------------------------------
(* Observers *)

(* `last` tells what the latest step did: the handler that ran (op), how it
   ended (res), the store, stacks, clock and selected color it started from
   (pre) and, for a delivered frame, the detector's results, the TrackingState
   delivered (state) and the result of the remote call of an accepted edit
   (api). *)
NoPre == [voxels |-> EmptyMap, history |-> <<>>, future |-> <<>>, elapsed |-> 0,
          selectedColor |-> DefaultColor]
NoState == TrackingState(<<>>, "NONE", 0, Undefined)
Idle == [op |-> "idle", res |-> "none", pre |-> NoPre,
         results |-> <<>>, state |-> NoState, api |-> TRUE]
Did(op, res) ==
  [op |-> op, res |-> res,
   pre |-> [voxels |-> voxels, history |-> history, future |-> future,
            elapsed |-> elapsed, selectedColor |-> selectedColor],
   results |-> <<>>, state |-> NoState, api |-> TRUE]

(* `trip` follows an accepted edit (op) through the undo and the redo that come
   right after it: n counts the steps, snap is the store and the stacks right
   after the edit, before the store right before it. *)
(* `call` tells the latest call of a function that a specification follows on
   its own: its name (fn), its arguments and what it returned. *)
NoCall == [fn |-> "none"]

NoTrip == [n |-> 0, op |-> "none", snap |-> <<>>, before |-> EmptyMap]

-----------------------------------------------------------------------------
(* Initial state: App and HandTracker mounted on a browser without a saved
   world, loadWorld done (the world is empty, its save is pending), the
   landmark model still loading. *)

Mounted ==
  /\ voxels = EmptyMap
  /\ voxelsRef = EmptyMap
  /\ history = <<>>
  /\ future = <<>>
  /\ undoHistory = <<>>
  /\ redoFuture = <<>>
  /\ mode = "BUILD"
  /\ selectedColor = DefaultColor
  /\ currentGesture = "NONE"
  /\ elapsed = 0
  /\ gridPos = Origin
  /\ isActive = TRUE
  /\ isModelLoading = TRUE
  /\ loops = {}
  /\ lastGesture = "NONE"
  /\ gestureSettings = DEFAULT_GESTURE_SETTINGS
  /\ settingsRef = DEFAULT_GESTURE_SETTINGS
  /\ trackSettings = DEFAULT_GESTURE_SETTINGS
  /\ timers = {Timer(EmptyMap)}
  /\ colorHistory = <<>>
  /\ updateQueue = <<>>
  /\ permissionError = FALSE
  /\ modelLoadError = FALSE
  /\ handLandmarker = FALSE
  /\ runs = <<>>
  /\ video = [src |-> 0, loaded |-> FALSE]
  /\ frameRequests = {}
  /\ animationFrameRef = 0
  /\ last = Idle
  /\ trip = NoTrip
  /\ call = NoCall

Init ==
  /\ Mounted
  /\ persisted = NoItem
  /\ loaded = TRUE

(* Items a browser can hold under 'voxelverse_data' when the page loads *)
SavedRed == VoxelData(0, 0, 0, "#ef4444")
SavedCyan == VoxelData(-1, 12, 0, "#06b6d4")
StoredValues ==
  {NoItem, EmptyText, NotJson, JsonText(JNull), JsonText(JObject),
   JsonText(JArray(<<>>)), JsonText(JArray(<<SavedRed>>)),
   JsonText(JArray(<<SavedRed, SavedCyan>>)),
   JsonText(JArray(<<SavedRed, JNull>>)), JsonText(JArray(<<JNumber>>))}

(* Page load on a browser with any such item, loadWorld still to run *)
InitLoad ==
  /\ Mounted
  /\ persisted \in StoredValues
  /\ loaded = FALSE

-----------------------------------------------------------------------------
(* Actions *)

(* The clock advances. *)
AdvanceTime ==
  /\ UNCHANGED calcVars
  /\ UNCHANGED settingsVars
  /\ UNCHANGED <<timers, persisted, loaded>>
  /\ elapsed < DEBOUNCE_MS
  /\ elapsed' = IF elapsed + TimeStep >= DEBOUNCE_MS THEN DEBOUNCE_MS
                 ELSE elapsed + TimeStep
  /\ last' = Idle
  /\ trip' = NoTrip
  /\ UNCHANGED <<voxels, voxelsRef, history, future, undoHistory, redoFuture, mode,
                 selectedColor, currentGesture, gridPos,
                 isActive, isModelLoading, loops, lastGesture>>

(* Scene3D's useFrame moves the cursor cell. *)
MoveCursor ==
  /\ UNCHANGED calcVars
  /\ UNCHANGED settingsVars
  /\ UNCHANGED <<timers, persisted, loaded>>
  /\ \E c \in Cells \ {gridPos} : gridPos' = c
  /\ last' = Idle
  /\ trip' = NoTrip
  /\ UNCHANGED <<voxels, voxelsRef, history, future, undoHistory, redoFuture, mode,
                 selectedColor, currentGesture, elapsed,
                 isActive, isModelLoading, loops, lastGesture>>

(* loadModel completes: the landmarker is there, isModelLoading turns false
   and the tracking effect runs again. *)
ModelLoaded ==
  /\ UNCHANGED calcVars
  /\ UNCHANGED settingsVars
  /\ UNCHANGED <<timers, persisted, loaded>>
  /\ isModelLoading
  /\ isModelLoading' = FALSE
  /\ loops' = TrackerEffect(isActive, FALSE, mode, selectedColor, trackSettings)
  /\ last' = Idle
  /\ trip' = NoTrip
  /\ UNCHANGED <<voxels, voxelsRef, history, future, undoHistory, redoFuture, mode,
                 selectedColor, currentGesture, elapsed, gridPos,
                 isActive, lastGesture>>

(* The camera button: setIsActive(!isActive); disabled while the model loads. *)
ToggleActive ==
  /\ UNCHANGED calcVars
  /\ UNCHANGED settingsVars
  /\ UNCHANGED <<timers, persisted, loaded>>
  /\ ~isModelLoading
  /\ isActive' = ~isActive
  /\ loops' = TrackerEffect(~isActive, isModelLoading, mode, selectedColor, trackSettings)
  /\ last' = Idle
  /\ trip' = NoTrip
  /\ UNCHANGED <<voxels, voxelsRef, history, future, undoHistory, redoFuture, mode,
                 selectedColor, currentGesture, elapsed, gridPos,
                 isModelLoading, lastGesture>>

(* The UI's setMode(m).  The render re-creates handleTrackingUpdate (mode is
   one of its dependencies); the tracking effect runs again only when
   isColorPickingMode changes with it. *)
SetMode ==
  /\ UNCHANGED calcVars
  /\ UNCHANGED <<timers, persisted, loaded>>
  /\ \E m \in Modes \ {mode} :
       /\ mode' = m
       /\ loops' = IF isSamplingActive(m) # isSamplingActive(mode)
                     THEN TrackerEffect(isActive, isModelLoading, m, selectedColor,
                                        gestureSettings)
                     ELSE loops
  /\ trackSettings' = gestureSettings
  /\ UNCHANGED <<gestureSettings, settingsRef>>
  /\ last' = Idle
  /\ trip' = NoTrip
  /\ UNCHANGED <<voxels, voxelsRef, history, future, undoHistory, redoFuture,
                 selectedColor, currentGesture, elapsed, gridPos,
                 isActive, isModelLoading, lastGesture>>

(* The UI's setColor(c); no dependency of the tracking effect changes. *)
SetColor ==
  /\ UNCHANGED calcVars
  /\ UNCHANGED <<timers, persisted, loaded>>
  /\ \E c \in COLORS \ {selectedColor} : selectedColor' = c
  /\ trackSettings' = gestureSettings
  /\ UNCHANGED <<gestureSettings, settingsRef>>
  /\ last' = Idle
  /\ trip' = NoTrip
  /\ UNCHANGED <<voxels, voxelsRef, history, future, undoHistory, redoFuture, mode,
                 currentGesture, elapsed, gridPos,
                 isActive, isModelLoading, loops, lastGesture>>

(* The settings popover: onUpdateSettings(s) is setGestureSettings(s); the
   commit runs HandTracker's effect settingsRef.current = gestureSettings.
   No dependency of handleTrackingUpdate or of the tracking effect changes. *)
UpdateSettings ==
  /\ UNCHANGED calcVars
  /\ UNCHANGED <<timers, persisted, loaded>>
  /\ \E st \in SettingsValues \ {gestureSettings} :
       /\ gestureSettings' = st
       /\ settingsRef' = st
  /\ last' = Idle
  /\ trip' = NoTrip
  /\ UNCHANGED <<voxels, voxelsRef, history, future, undoHistory, redoFuture, mode,
                 selectedColor, currentGesture, elapsed, gridPos,
                 isActive, isModelLoading, loops, lastGesture, trackSettings>>

(* The mount effect's loadWorld: setVoxels(map), whose commit syncs voxelsRef
   and resets the auto-save timeout. *)
LoadWorld ==
  /\ UNCHANGED calcVars
  /\ ~loaded
  /\ \E remote \in RemoteOutcomes :
       LET world == loadWorld(persisted, remote)
       IN /\ voxels' = world.map
          /\ voxelsRef' = SyncVoxelsRef(voxelsRef, world.map)
          /\ timers' = ScheduleSave(timers, voxels, world.map)
          /\ last' = Did("load", world.from)
  /\ loaded' = TRUE
  /\ trip' = NoTrip
  /\ UNCHANGED settingsVars
  /\ UNCHANGED <<history, future, undoHistory, redoFuture, mode, selectedColor,
                 currentGesture, elapsed, gridPos, isActive, isModelLoading,
                 loops, lastGesture, persisted>>

(* An auto-save timeout fires: localStorage.setItem with the voxels it closed
   over. *)
SaveFires ==
  /\ UNCHANGED calcVars
  /\ \E t \in timers :
       /\ persisted' = Stringify(t.snapshot)
       /\ timers' = timers \ {t}
  /\ last' = Did("save", "ok")
  /\ trip' = NoTrip
  /\ UNCHANGED settingsVars
  /\ UNCHANGED <<voxels, voxelsRef, history, future, undoHistory, redoFuture, mode,
                 selectedColor, currentGesture, elapsed, gridPos, isActive,
                 isModelLoading, loops, lastGesture, loaded>>

(* The state a handler's outcome commits: the stacks, the store, the ref (synced
   by the [voxels] effect when setVoxels was called), the auto-save timeout the
   same effect resets, and the re-created handleUndo / handleRedo. *)
Commit(out) ==
  /\ voxels' = out.voxels
  /\ history' = out.history
  /\ future' = out.future
  /\ elapsed' = out.elapsed
  /\ voxelsRef' = IF out.res = "ok" THEN SyncVoxelsRef(out.voxelsRef, out.voxels)
                  ELSE out.voxelsRef
  /\ undoHistory' = out.history
  /\ redoFuture' = out.future
  /\ timers' = IF out.res = "ok" THEN ScheduleSave(timers, voxels, out.voxels)
                ELSE timers

(* One pass of predictWebcam in the loop whose closure is cb, on a new video
   frame for which detectForVideo returned results: the emission, the
   dispatcher it calls and the commit of what the dispatcher set.  A pass that
   throws never reaches requestAnimationFrame: its loop ends. *)
Tick(cb, results, sample, api) ==
  LET frame == Frame(cb, results, sample)
      upd == handleTrackingUpdate(cb, frame.state)
      out == AwaitApi(upd.out, api)
  IN /\ lastGesture' = frame.lastGesture
     /\ loops' = IF frame.threw THEN loops \ {cb} ELSE loops
     /\ IF frame.emit
          THEN /\ Len(out.history) + Len(out.future) <= MaxHist
               /\ Commit(out)
               /\ currentGesture' = upd.currentGesture
               /\ selectedColor' = upd.selectedColor
               /\ trackSettings' = IF upd.selectedColor # selectedColor
                                     THEN gestureSettings ELSE trackSettings
               /\ last' = [Did(IF upd.edit = "none" THEN "frame" ELSE upd.edit,
                               out.res)
                             EXCEPT !.results = results, !.state = frame.state,
                                    !.api = api]
               /\ trip' = IF out.res = "ok"
                            THEN [n |-> 1, op |-> upd.edit,
                                  snap |-> <<out.voxels, out.history, out.future>>,
                                  before |-> voxels]
                            ELSE NoTrip
          ELSE /\ last' = Idle
               /\ trip' = NoTrip
               /\ UNCHANGED <<voxels, voxelsRef, history, future, undoHistory,
                              redoFuture, currentGesture, selectedColor,
                              elapsed, trackSettings, timers>>
     /\ UNCHANGED <<mode, gridPos, isActive, isModelLoading,
                    gestureSettings, settingsRef, persisted, loaded, colorHistory,
                    updateQueue, cameraVars>>

(* What sampleColorAt may return in a pass: it is called when sampling is on
   and the pass reaches it. *)
SamplesFor(cb, results) ==
  IF cb.isColorPickingMode /\ Len(results) > 0 /\ ~Frame(cb, results, Undefined).threw
    THEN SampleOutcomes ELSE {Undefined}

(* Results of the remote call of a pass: there is one when an edit is made. *)
ApiFor(cb, results, sample) ==
  IF handleTrackingUpdate(cb, Frame(cb, results, sample).state).out.res = "ok"
    THEN ApiResults ELSE {TRUE}

(* One animation frame of a live loop. *)
PredictWebcam ==
  \E cb \in loops, results \in DetectorResults :
  \E sample \in SamplesFor(cb, results) :
  \E api \in ApiFor(cb, results, sample) :
    /\ Tick(cb, results, sample, api)
    /\ UNCHANGED call

(* The UI's undo button: the rendered handleUndo. *)
Undo ==
  LET out == handleUndo(undoHistory)
  IN /\ Commit(out)
     /\ UNCHANGED settingsVars
     /\ UNCHANGED storageVars
     /\ UNCHANGED calcVars
     /\ last' = Did("undo", out.res)
     /\ trip' = IF trip.n = 1 THEN [trip EXCEPT !.n = 2] ELSE NoTrip
     /\ UNCHANGED <<mode, selectedColor, currentGesture, gridPos,
                    isActive, isModelLoading, loops, lastGesture>>

(* The UI's redo button: the rendered handleRedo. *)
Redo ==
  LET out == handleRedo(redoFuture)
  IN /\ Commit(out)
     /\ UNCHANGED settingsVars
     /\ UNCHANGED storageVars
     /\ UNCHANGED calcVars
     /\ last' = Did("redo", out.res)
     /\ trip' = IF trip.n = 2 THEN [trip EXCEPT !.n = 3] ELSE NoTrip
     /\ UNCHANGED <<mode, selectedColor, currentGesture, gridPos,
                    isActive, isModelLoading, loops, lastGesture>>

Next ==
  \/ AdvanceTime
  \/ MoveCursor
  \/ ModelLoaded
  \/ ToggleActive
  \/ SetMode
  \/ SetColor
  \/ PredictWebcam
  \/ Undo
  \/ Redo

Spec == Init /\ [][Next]_vars

(* The editor with its settings popover in use. *)
NextSettings ==
  \/ AdvanceTime
  \/ ModelLoaded
  \/ SetMode
  \/ UpdateSettings
  \/ PredictWebcam

SpecSettings == Init /\ [][NextSettings]_vars

(* The editor with its auto-save timeouts firing.  A timeout that is not
   cleared fires once its delay has passed. *)
NextSave ==
  \/ AdvanceTime
  \/ ModelLoaded
  \/ SetMode
  \/ PredictWebcam
  \/ Undo
  \/ Redo
  \/ SaveFires

SpecSave == Init /\ [][NextSave]_vars /\ WF_vars(SaveFires)

(* Page load: loadWorld on whatever the browser holds. *)
NextLoad ==
  \/ LoadWorld
  \/ AdvanceTime
  \/ MoveCursor
  \/ ModelLoaded
  \/ SetMode
  \/ SetColor

SpecLoad == InitLoad /\ [][NextLoad]_vars

(* The gesture of the latest onUpdate call of the frame loop, "nothing" before
   the first. *)
Emitted == IF call.fn = "predictWebcam" THEN call.emitted ELSE "nothing"

(* One animation frame of a live loop, on any result of the detector, with
   what the pass did on record: the results, the mode App is in, the sampling
   flag the loop reads,
   whether it threw, whether it called onUpdate and with what, the gesture of
   the onUpdate call before it (prev), whether the loop goes on, and the store,
   stack and color the pass started from. *)
TrackFrame ==
  \E cb \in loops, results \in TrackerResults :
  \E sample \in SamplesFor(cb, results) :
  \E api \in ApiFor(cb, results, sample) :
    LET frame == Frame(cb, results, sample)
    IN /\ Tick(cb, results, sample, api)
       /\ call' = [fn |-> "predictWebcam", results |-> results,
                   mode |-> mode, sampling |-> cb.isColorPickingMode,
                   threw |-> frame.threw, emit |-> frame.emit,
                   state |-> frame.state, prev |-> Emitted,
                   emitted |-> IF frame.emit THEN frame.state.gesture ELSE Emitted,
                   running |-> ~frame.threw,
                   before |-> [voxels |-> voxels, history |-> history,
                               selectedColor |-> selectedColor]]

(* The frame loop and the dispatcher behind it, the mode buttons in use. *)
NextTracker ==
  \/ ModelLoaded
  \/ SetMode
  \/ TrackFrame

SpecTracker == Init /\ [][NextTracker]_vars

(* The variables of the editor, which a function followed on its own leaves
   alone. *)
editorVars ==
  <<voxels, voxelsRef, history, future, undoHistory, redoFuture, mode,
    selectedColor, currentGesture, elapsed, gridPos, isActive, isModelLoading,
    loops, lastGesture, gestureSettings, settingsRef, trackSettings,
    timers, persisted, loaded, updateQueue, last, trip, cameraVars>>

(* The caller takes the result of the latest call. *)
Return ==
  /\ call.fn # "none"
  /\ call' = NoCall
  /\ UNCHANGED <<editorVars, colorHistory>>

(* detectGesture(landmarks, settings) *)
Classify ==
  /\ call.fn = "none"
  /\ \E landmarks \in GridHands \cup OddPoses, settings \in ClassifierSettings :
       call' = [fn |-> "detectGesture", landmarks |-> landmarks,
                settings |-> settings, ret |-> detectGesture(landmarks, settings)]
  /\ UNCHANGED <<editorVars, colorHistory>>

(* sampleColorAt on what the window under the scan point holds *)
Sample ==
  /\ \E window \in Windows :
       LET r == sampleColorAt(colorHistory, window)
       IN /\ colorHistory' = r.colorHistory
          /\ call' = [fn |-> "sampleColorAt", window |-> window, ret |-> r.ret]
  /\ UNCHANGED editorVars

NextSampler ==
  \/ Sample

SpecSampler == Init /\ [][NextSampler]_vars

(* toScreenSpace(x, y, videoWidth, videoHeight, screenWidth, screenHeight) *)
ToScreenSpace ==
  /\ call.fn = "none"
  /\ \E x \in Coordinates, y \in Coordinates,
        videoW \in Widths, videoH \in Heights, screenW \in Widths, screenH \in Heights :
       call' = [fn |-> "toScreenSpace", x |-> x, y |-> y,
                videoW |-> videoW, videoH |-> videoH,
                screenW |-> screenW, screenH |-> screenH,
                ret |-> toScreenSpace(x, y, videoW, videoH, screenW, screenH)]
  /\ UNCHANGED <<editorVars, colorHistory>>

NextMapper ==
  \/ ToScreenSpace
  \/ Return

SpecMapper == Init /\ [][NextMapper]_vars

NextClassify ==
  \/ Classify
  \/ Return

SpecClassify == Init /\ [][NextClassify]_vars

(* The window of one sampleColorAt(ctx, x, y, width, height, radius) *)
ReadWindow ==
  /\ call.fn = "none"
  /\ \E x \in Coordinates, y \in Coordinates, width \in CanvasWidths,
        height \in CanvasHeights, radius \in Radii :
       call' = [fn |-> "sampleWindow", x |-> x, y |-> y, width |-> width,
                height |-> height, radius |-> radius,
                ret |-> sampleWindow(x, y, width, height, radius)]
  /\ UNCHANGED <<editorVars, colorHistory>>

NextWindow ==
  \/ ReadWindow
  \/ Return

SpecWindow == Init /\ [][NextWindow]_vars

-----------------------------------------------------------------------------
(* App: handlers whose state updates wait for the next render.  A handler
   called from the frame loop returns with its setState calls queued; React
   applies the queued updater functions in order when it renders.  A click is
   rendered before the click returns, together with whatever was queued. *)

Store(vox, hist, fut, gesture) ==
  [voxels |-> vox, history |-> hist, future |-> fut, currentGesture |-> gesture]

(* The updater functions of one handler call, applied to the state they are
   given: `prev => ...` of setVoxels, setHistory and setFuture; setFuture([])
   and setCurrentGesture(g) replace the value. *)
Updaters(u, prev) ==
  CASE u.by = "place" ->
         Store(MapSet(prev.voxels, u.action.voxel.id, u.action.voxel),
               Append(prev.history, u.action), <<>>, u.gesture)
    [] u.by = "delete" ->
         Store(MapDelete(prev.voxels, u.action.voxel.id),
               Append(prev.history, u.action), <<>>, u.gesture)
    [] u.by = "frame" ->
         Store(prev.voxels, prev.history, prev.future, u.gesture)
    [] u.by = "undo" ->
         Store(UndoVoxels(u.action, prev.voxels), SliceFront(prev.history),
               Append(prev.future, u.action), prev.currentGesture)
    [] u.by = "redo" ->
         Store(RedoVoxels(u.action, prev.voxels), Append(prev.history, u.action),
               SliceFront(prev.future), prev.currentGesture)

RECURSIVE Flush(_, _)
Flush(queue, prev) ==
  IF queue = <<>> THEN prev ELSE Flush(Tail(queue), Updaters(Head(queue), prev))

(* The state of the latest render, and the state the next render will show. *)
Rendered == Store(voxels, history, future, currentGesture)
Queued == Flush(updateQueue, Rendered)

(* What a handler of this specification leaves in `last`: the state its
   updaters will be given. *)
DidQueued(op, res) ==
  [Did(op, res) EXCEPT !.pre.voxels = Queued.voxels,
                       !.pre.history = Queued.history,
                       !.pre.future = Queued.future]

(* React renders: the queue is applied, the [voxels] effect syncs the ref and
   resets the save timeout, handleUndo and handleRedo are re-created. *)
RenderWith(queue) ==
  LET next == Flush(queue, Rendered)
  IN /\ Len(next.history) + Len(next.future) <= MaxHist
     /\ Commit(Outcome("ok", elapsed, voxelsRef, next.voxels, next.history,
                       next.future))
     /\ currentGesture' = next.currentGesture
     /\ updateQueue' = <<>>

(* A pass of a live loop delivers a confident PINCH or GRAB and the dispatcher
   of the loop's closure calls an edit handler, which returns. *)
FrameEdit ==
  \E cb \in loops, pose \in {PinchPose, FistPose} :
    LET gesture == detectGesture(pose, cb.gestureSettings)
        state == TrackingState(pose, gesture.type, gesture.confidence, Undefined)
        edit == EditFor(cb, state)
        id == VoxelId(gridPos[1], gridPos[2], gridPos[3])
        out == IF edit = "place"
                 THEN handlePlaceVoxel(gridPos[1], gridPos[2], gridPos[3],
                                       cb.selectedColor)
                 ELSE handleDeleteVoxel(gridPos[1], gridPos[2], gridPos[3])
        action == IF edit = "place" THEN HistoryAction("PLACE", out.voxelsRef[id])
                  ELSE HistoryAction("DELETE", voxelsRef[id])
    IN /\ edit # "none"
       /\ Len(updateQueue) < MaxPending
       /\ Len(Queued.history) < MaxHist
       /\ elapsed' = out.elapsed
       /\ voxelsRef' = out.voxelsRef
       /\ updateQueue' = IF out.res = "ok"
                       THEN Append(updateQueue, [by |-> edit, action |-> action,
                                             gesture |-> state.gesture])
                       ELSE Append(updateQueue, [by |-> "frame",
                                             gesture |-> state.gesture])
       /\ lastGesture' = state.gesture
       /\ last' = DidQueued(edit, out.res)
       /\ trip' = NoTrip
       /\ UNCHANGED <<voxels, history, future, undoHistory, redoFuture, mode,
                      selectedColor, currentGesture, gridPos, isActive,
                      isModelLoading, loops, timers, colorHistory, call>>
       /\ UNCHANGED settingsVars
       /\ UNCHANGED storageVars
       /\ UNCHANGED cameraVars

(* The scheduled render of what the frame loop queued. *)
Render ==
  /\ updateQueue # <<>>
  /\ RenderWith(updateQueue)
  /\ last' = Idle
  /\ trip' = NoTrip
  /\ UNCHANGED <<mode, selectedColor, gridPos, isActive, isModelLoading, loops,
                 lastGesture, colorHistory, call>>
  /\ UNCHANGED settingsVars
  /\ UNCHANGED storageVars
  /\ UNCHANGED cameraVars

(* A click on the undo button, enabled while the rendered history is not
   empty: the rendered handleUndo, then the render of the click. *)
UndoClick ==
  LET out == handleUndo(undoHistory)
  IN /\ out.res = "ok"
     /\ RenderWith(Append(updateQueue,
                          [by |-> "undo", action |-> undoHistory[Len(undoHistory)]]))
     /\ last' = DidQueued("undo", out.res)
     /\ trip' = NoTrip
     /\ UNCHANGED <<mode, selectedColor, gridPos, isActive, isModelLoading, loops,
                    lastGesture, colorHistory, call>>
     /\ UNCHANGED settingsVars
     /\ UNCHANGED storageVars
     /\ UNCHANGED cameraVars

(* A click on the redo button, enabled while the rendered future is not
   empty. *)
RedoClick ==
  LET out == handleRedo(redoFuture)
  IN /\ out.res = "ok"
     /\ RenderWith(Append(updateQueue,
                          [by |-> "redo", action |-> redoFuture[Len(redoFuture)]]))
     /\ last' = DidQueued("redo", out.res)
     /\ trip' = NoTrip
     /\ UNCHANGED <<mode, selectedColor, gridPos, isActive, isModelLoading, loops,
                    lastGesture, colorHistory, call>>
     /\ UNCHANGED settingsVars
     /\ UNCHANGED storageVars
     /\ UNCHANGED cameraVars

NextRender ==
  \/ AdvanceTime
  \/ MoveCursor
  \/ ModelLoaded
  \/ SetMode
  \/ FrameEdit
  \/ Render
  \/ UndoClick
  \/ RedoClick

SpecRender == Init /\ [][NextRender]_vars

-----------------------------------------------------------------------------
(* HandTracker: the life of the tracking effect, step by step.  A run of the
   effect that calls startCamera waits for getUserMedia, then hands its stream
   and its predictWebcam to the video element; the video's loadeddata event
   starts the frame loop of that predictWebcam, which asks for the next
   animation frame at the end of every pass. *)

MaxRuns == 2       \* runs of the tracking effect that call startCamera
MaxSamples == 2    \* window means pushed on the rolling buffer
CameraModes == {"BUILD", "COLOR", "VIEW"}   \* modes the mode buttons switch between

(* A run of the effect: the onUpdate and sampling flag of its render (cb), its
   `stream` ("pending" while getUserMedia is awaited, then "live" or "failed",
   "stopped" once the cleanup has stopped the tracks), whether its cleanup has
   run, and what made the effect run. *)
Run(cb, by) == [cb |-> cb, stream |-> "pending", cleaned |-> FALSE, by |-> by]

(* The cleanup of the latest run: `if (stream) tracks.stop()` on the `stream`
   of that run, null until its getUserMedia has resolved. *)
Cleanup(rs) ==
  [r \in DOMAIN rs |->
     IF r = Len(rs) /\ ~rs[r].cleaned
       THEN [rs[r] EXCEPT !.cleaned = TRUE,
                          !.stream = IF @ = "live" THEN "stopped" ELSE @]
       ELSE rs[r]]

(* What the module-level colorHistory holds after the cleanup and the new run
   of the effect, had they emptied it *)
BufferAfterEffectCleared(hist) == <<>>

(* What the module-level colorHistory holds after the cleanup and the new run
   of the effect: neither touches it. *)
BufferAfterEffect(hist) == hist

(* The tracking effect runs again in a render with these isActive, landmarker
   and mode: cleanup of the previous run (cancelAnimationFrame of the one
   request the ref names), then startCamera when tracking is active and the
   landmarker is there; startCamera begins with setPermissionError(false). *)
TrackingEffect(active, landmarker, m, by, error) ==
  LET starts == active /\ landmarker
  IN /\ starts => Len(runs) < MaxRuns
     /\ runs' = IF starts
                  THEN Append(Cleanup(runs),
                              Run(Closure(m, selectedColor, gestureSettings), by))
                  ELSE Cleanup(runs)
     /\ frameRequests' = frameRequests \ {animationFrameRef}
     /\ permissionError' = IF starts THEN FALSE ELSE error
     /\ colorHistory' = BufferAfterEffect(colorHistory)

(* The variables of App no step of the tracking effect touches, and those a
   pass of the frame loop sets *)
appVars ==
  <<voxels, voxelsRef, history, future, undoHistory, redoFuture, elapsed, gridPos,
    loops, gestureSettings, settingsRef, trackSettings, timers, persisted,
    loaded, updateQueue, last, trip>>
passVars == <<selectedColor, currentGesture, lastGesture>>

(* What the lifecycle steps leave on record: the run that sampled last. *)
Sampler == IF call.fn \in {"camera", "tick"} THEN call.sampler ELSE 0
Lifecycle(step) == [fn |-> "camera", step |-> step, sampler |-> Sampler]

(* loadModel settles: createFromOptions resolved or something threw; finally
   setIsModelLoading(false), and the tracking effect runs again. *)
LoadModelSettles ==
  /\ isModelLoading
  /\ \E ok \in BOOLEAN :
       /\ handLandmarker' = ok
       /\ modelLoadError' = ~ok
       /\ TrackingEffect(isActive, ok, mode, "load", permissionError)
  /\ isModelLoading' = FALSE
  /\ call' = Lifecycle("load")
  /\ UNCHANGED <<appVars, passVars>>
  /\ UNCHANGED <<video, animationFrameRef, isActive, mode>>

(* The Reload Model button, shown while modelLoadError: loadModel() again. *)
ReloadModel ==
  /\ modelLoadError /\ ~isModelLoading
  /\ isModelLoading' = TRUE
  /\ modelLoadError' = FALSE
  /\ TrackingEffect(isActive, handLandmarker, mode, "reload", permissionError)
  /\ call' = Lifecycle("reload")
  /\ UNCHANGED <<appVars, passVars>>
  /\ UNCHANGED <<handLandmarker, video, animationFrameRef, isActive, mode>>

(* The camera button, disabled while the model loads. *)
CameraToggle ==
  /\ ~isModelLoading
  /\ isActive' = ~isActive
  /\ TrackingEffect(~isActive, handLandmarker, mode, "toggle", permissionError)
  /\ call' = Lifecycle("toggle")
  /\ UNCHANGED <<appVars, passVars>>
  /\ UNCHANGED <<handLandmarker, modelLoadError, video, animationFrameRef,
                 isModelLoading, mode>>

(* setMode(m), among the modes this specification follows: the effect runs
   again when isColorPickingMode changes. *)
CameraSetMode ==
  /\ \E m \in CameraModes \ {mode} :
       /\ mode' = m
       /\ IF isSamplingActive(m) # isSamplingActive(mode)
            THEN TrackingEffect(isActive, handLandmarker, m, "mode", permissionError)
            ELSE UNCHANGED <<runs, frameRequests, permissionError, colorHistory>>
  /\ call' = Lifecycle("mode")
  /\ UNCHANGED <<appVars, passVars>>
  /\ UNCHANGED <<handLandmarker, modelLoadError, video, animationFrameRef,
                 isActive, isModelLoading>>

(* getUserMedia of run r resolves: stream = ..., videoRef.current.srcObject =
   stream, onloadeddata = predictWebcam of that run. *)
CameraGranted ==
  /\ \E r \in DOMAIN runs :
       /\ runs[r].stream = "pending"
       /\ runs' = [runs EXCEPT ![r].stream = "live"]
       /\ video' = [src |-> r, loaded |-> FALSE]
  /\ call' = Lifecycle("granted")
  /\ UNCHANGED <<appVars, passVars>>
  /\ UNCHANGED <<permissionError, modelLoadError, handLandmarker, frameRequests,
                 animationFrameRef, isActive, isModelLoading, mode, colorHistory>>

(* getUserMedia of run r rejects: setPermissionError(true), setIsActive(false),
   and the effect runs again when isActive changed with it. *)
CameraDenied ==
  /\ \E r \in DOMAIN runs :
       /\ runs[r].stream = "pending"
       /\ LET failed == [runs EXCEPT ![r].stream = "failed"]
          IN IF isActive
               THEN /\ runs' = Cleanup(failed)
                    /\ frameRequests' = frameRequests \ {animationFrameRef}
               ELSE /\ runs' = failed
                    /\ frameRequests' = frameRequests
  /\ permissionError' = TRUE
  /\ isActive' = FALSE
  /\ colorHistory' = IF isActive THEN BufferAfterEffect(colorHistory) ELSE colorHistory
  /\ call' = Lifecycle("denied")
  /\ UNCHANGED <<appVars, passVars>>
  /\ UNCHANGED <<modelLoadError, handLandmarker, video, animationFrameRef,
                 isModelLoading, mode>>

(* The Retry Camera button, shown while permissionError:
   setPermissionError(false); setIsActive(true). *)
RetryCamera ==
  /\ permissionError
  /\ isActive' = TRUE
  /\ IF isActive
       THEN /\ permissionError' = FALSE
            /\ UNCHANGED <<runs, frameRequests, colorHistory>>
       ELSE TrackingEffect(TRUE, handLandmarker, mode, "retry", FALSE)
  /\ call' = Lifecycle("retry")
  /\ UNCHANGED <<appVars, passVars>>
  /\ UNCHANGED <<modelLoadError, handLandmarker, video, animationFrameRef,
                 isModelLoading, mode>>

(* Frames the detector sees in this specification: no hand, or an open hand
   (the edits of PINCH and GRAB frames are followed in Spec); and the windows
   the sampler reads. *)
CameraResults == {<<>>, <<OpenPose>>}
CameraWindows == {Unreadable, Window(OffWhite), Window(Black)}

(* One pass of predictWebcam of run r.  It returns at once without a
   landmarker; it processes a frame when the video shows a new one; it ends
   with requestAnimationFrame, since the isActive of its render is true. *)
Pass(r, newFrame, results, window) ==
  LET cb == runs[r].cb
      samples == newFrame /\ cb.isColorPickingMode /\ Len(results) > 0
      s == IF samples THEN sampleColorAt(colorHistory, window)
           ELSE [ret |-> Undefined, colorHistory |-> colorHistory]
      frame == Frame(cb, results, s.ret)
      upd == handleTrackingUpdate(cb, frame.state)
      emit == handLandmarker /\ newFrame /\ frame.emit
      sampled == handLandmarker /\ samples /\ window.readable
  IN /\ sampled => Len(colorHistory) < MaxSamples
     /\ colorHistory' = IF handLandmarker THEN s.colorHistory ELSE colorHistory
     /\ lastGesture' = IF handLandmarker /\ newFrame THEN frame.lastGesture
                        ELSE lastGesture
     /\ currentGesture' = IF emit THEN upd.currentGesture ELSE currentGesture
     /\ selectedColor' = IF emit THEN upd.selectedColor ELSE selectedColor
     /\ frameRequests' = IF handLandmarker THEN frameRequests \cup {r}
                          ELSE frameRequests \ {r}
     /\ animationFrameRef' = IF handLandmarker THEN r ELSE animationFrameRef
     /\ call' = [fn |-> "tick", run |-> r, tornDown |-> runs[r].cleaned,
                 isActive |-> isActive, permissionError |-> permissionError,
                 modelLoadError |-> modelLoadError,
                 processed |-> handLandmarker /\ newFrame, emit |-> emit,
                 sampled |-> sampled, window |-> window, sample |-> s.ret,
                 before |-> colorHistory,
                 resumed |-> sampled /\ Sampler \notin {0, r},
                 sampler |-> IF sampled THEN r ELSE Sampler]
     /\ UNCHANGED <<permissionError, modelLoadError, handLandmarker, runs,
                    isActive, isModelLoading, mode>>
     /\ UNCHANGED appVars

(* The video element plays a stream whose tracks are live. *)
Playing == video.src # 0 /\ runs[video.src].stream = "live"

(* What a pass can meet: with a new frame, the detector's results and, when
   the pass samples, the window read. *)
PassInputs(r) ==
  {<<FALSE, <<>>, Unreadable>>} \cup
  (IF Playing
     THEN {<<TRUE, results, window>> :
             results \in CameraResults,
             window \in (IF runs[r].cb.isColorPickingMode THEN CameraWindows
                         ELSE {Unreadable})}
     ELSE {})

(* The video fires loadeddata for the stream it was handed: the first pass of
   the predictWebcam it was handed with it. *)
LoadedData ==
  /\ Playing /\ ~video.loaded
  /\ video' = [video EXCEPT !.loaded = TRUE]
  /\ \E in \in PassInputs(video.src) : Pass(video.src, in[1], in[2], in[3])

(* An animation frame: the predictWebcam that asked for it runs. *)
AnimationFrame ==
  /\ \E r \in frameRequests :
       \E in \in PassInputs(r) : Pass(r, in[1], in[2], in[3])
  /\ UNCHANGED video

NextCamera ==
  \/ LoadModelSettles
  \/ ReloadModel
  \/ CameraToggle
  \/ CameraSetMode
  \/ CameraGranted
  \/ CameraDenied
  \/ RetryCamera
  \/ LoadedData
  \/ AnimationFrame

SpecCamera == Init /\ [][NextCamera]_vars

-----------------------------------------------------------------------------
(* Properties *)

(* The id of the cell under the cursor.  gridPos is the cell of the latest
   place or delete attempt whenever last.op names one, since moving the cursor
   is a step of its own. *)
CursorId == VoxelId(gridPos[1], gridPos[2], gridPos[3])

Delivered == last.op \in {"frame", "place", "delete"}
StoreAsBefore ==
  /\ voxels = last.pre.voxels
  /\ history = last.pre.history
  /\ future = last.pre.future

(* C1: every record of the store sits under its own id, and that id is the
   text "x,y,z" of the record's coordinates; so no two records of the store
   have the same coordinates. *)
C1_StoreIdentity ==
  /\ \A k \in DOMAIN voxels :
       /\ voxels[k].id = k
       /\ k = VoxelId(voxels[k].x, voxels[k].y, voxels[k].z)
       /\ (voxels[k].x = 0 /\ voxels[k].y = 0 /\ voxels[k].z = 0) => k = "0,0,0"
       /\ (voxels[k].x = -1 /\ voxels[k].y = 12 /\ voxels[k].z = 0) => k = "-1,12,0"
  /\ \A j, k \in DOMAIN voxels :
       (voxels[j].x = voxels[k].x /\ voxels[j].y = voxels[k].y
          /\ voxels[j].z = voxels[k].z) => j = k

(* Two records in the store, the second brought back by redo. *)
C1_Witness ==
  /\ last.op = "redo" /\ last.res = "ok"
  /\ Cardinality(DOMAIN voxels) = 2

(* C2: a place attempt at a cell that holds a record changes neither that
   record nor the store, History or Future, whatever the color of the attempt;
   an accepted place adds exactly one record. *)
C2_PlaceIdempotent ==
  /\ (last.op = "place" /\ CursorId \in DOMAIN last.pre.voxels) => StoreAsBefore
  /\ (last.op = "place" /\ voxels # last.pre.voxels) =>
       /\ Cardinality(DOMAIN voxels) = Cardinality(DOMAIN last.pre.voxels) + 1
       /\ CursorId \in DOMAIN voxels

(* A place was attempted on an occupied cell with another color than the
   record's, outside the cooldown. *)
C2_Witness ==
  /\ last.op = "place" /\ last.res = "occupied"
  /\ CursorId \in DOMAIN voxels
  /\ \E cb \in loops : cb.selectedColor # voxels[CursorId].color

(* C3: a delete attempt at a cell that holds no record leaves the store,
   History and Future as they were. *)
C3_DeleteEmptyNoop ==
  (last.op = "delete" /\ CursorId \notin DOMAIN last.pre.voxels) => StoreAsBefore

(* A delete was attempted on an empty cell, outside the cooldown, while the
   store held another record. *)
C3_Witness ==
  /\ last.op = "delete" /\ last.res = "empty"
  /\ Cardinality(DOMAIN voxels) = 1

(* C4: undo right after an accepted place(v) removes v alone and moves the
   PLACE action from History to Future; redo right after that brings back the
   store, History and Future of the moment after place(v). *)
C4_PlaceUndoRedo ==
  /\ (trip.op = "place" /\ trip.n = 2) =>
       LET act == trip.snap[2][Len(trip.snap[2])]
       IN /\ act.type = "PLACE"
          /\ act.voxel.id \in DOMAIN trip.snap[1]
          /\ voxels = MapDelete(trip.snap[1], act.voxel.id)
          /\ history = SliceFront(trip.snap[2])
          /\ future = Append(trip.snap[3], act)
  /\ (trip.op = "place" /\ trip.n = 3) => <<voxels, history, future>> = trip.snap

(* place(v); undo(); redo() has run, v placed in a color that is no longer
   the selected one, next to an older record. *)
C4_Witness ==
  /\ trip.op = "place" /\ trip.n = 3
  /\ Cardinality(DOMAIN voxels) = 2
  /\ voxels[CursorId].color # selectedColor

(* C5: an accepted place or delete leaves Future empty, whatever it held, and
   the redo button then does nothing. *)
C5_EditClearsFuture ==
  (last.op \in {"place", "delete"} /\ history # last.pre.history) =>
     /\ future = <<>>
     /\ handleRedo(redoFuture) = Dropped("empty")

(* place(a); place(b); undo(); place(c): the last place found b's action in
   Future. *)
C5_Witness ==
  /\ last.op = "place" /\ last.res = "ok"
  /\ Len(last.pre.future) = 1
  /\ Len(history) = 2

(* C6: an accepted place or delete comes DEBOUNCE_MS or more after the
   previous accepted one and stamps the clock; an attempt inside the window
   changes nothing, the stamp included. *)
C6_Cooldown ==
  /\ (last.op \in {"place", "delete"} /\ ~StoreAsBefore) =>
       (last.pre.elapsed >= DEBOUNCE_MS /\ elapsed = 0)
  /\ (last.op \in {"place", "delete"} /\ last.pre.elapsed < DEBOUNCE_MS) =>
       (StoreAsBefore /\ elapsed = last.pre.elapsed)

(* A delete was attempted one clock step after an accepted place and dropped. *)
C6_Witness ==
  /\ last.op = "delete" /\ last.res = "cooldown"
  /\ elapsed = TimeStep
  /\ CursorId \in DOMAIN voxels
  /\ Len(history) = 1

(* C7: a place attempt at a free cell inserts its record exactly when
   DEBOUNCE_MS or more have passed since the last accepted edit; inside the
   window the store stays as it was. *)
C7_SecondPlace ==
  (last.op = "place" /\ CursorId \notin DOMAIN last.pre.voxels) =>
     /\ (CursorId \in DOMAIN voxels) <=> (last.pre.elapsed >= DEBOUNCE_MS)
     /\ (last.pre.elapsed < DEBOUNCE_MS) => voxels = last.pre.voxels

(* The second of two places at different cells was accepted after the
   cooldown. *)
C7_Witness ==
  /\ last.op = "place" /\ last.res = "ok"
  /\ last.pre.elapsed >= DEBOUNCE_MS
  /\ Cardinality(DOMAIN last.pre.voxels) = 1
  /\ Cardinality(DOMAIN voxels) = 2
  /\ Len(history) = 2 /\ history[1].type = "PLACE"

(* C8: while the mode is VIEW no delivered TrackingState changes the store,
   History or Future. *)
C8_ViewNeverEdits ==
  (mode = "VIEW" /\ Delivered) => StoreAsBefore

(* C9: in DELETE mode a GRAB frame is delivered and, the cooldown over and
   the cursor on a record, removes the record and records its DELETE. *)
C9_DeleteModeGrabDeletes ==
  (/\ mode = "DELETE" /\ Delivered /\ currentGesture = "GRAB"
   /\ last.pre.elapsed >= DEBOUNCE_MS
   /\ CursorId \in DOMAIN last.pre.voxels) =>
     /\ voxels = MapDelete(last.pre.voxels, CursorId)
     /\ history = Append(last.pre.history,
                         HistoryAction("DELETE", last.pre.voxels[CursorId]))

(* C10: the store changes on a delivered TrackingState only by a place on
   PINCH in mode BUILD or COLOR, or by a delete on GRAB in mode DELETE. *)
C10_EditRuleTable ==
  (Delivered /\ ~StoreAsBefore) =>
     \/ /\ last.op = "place" /\ currentGesture = "PINCH"
        /\ mode \in {"BUILD", "COLOR"}
     \/ /\ last.op = "delete" /\ currentGesture = "GRAB"
        /\ mode = "DELETE"

(* C11: an edit is attempted only on a TrackingState whose confidence reaches
   the minConfidence of the current settings (GESTURE_CONFIDENCE_MIN when
   unset); a PINCH or GRAB below it leaves the store, History, Future and the
   cooldown stamp as they were. *)
C11_ConfidenceGate ==
  Delivered =>
    LET st == last.state
        minConf == MinConfidence(gestureSettings)
    IN /\ (last.op \in {"place", "delete"}) => st.confidence >= minConf
       /\ (st.gesture \in {"PINCH", "GRAB"} /\ st.confidence < minConf) =>
            (StoreAsBefore /\ elapsed = last.pre.elapsed)

(* C12: an accepted place inserts a record in the color that is selected at
   the moment of the place (before or after the frame's own auto-pick) and
   pushes one PLACE action carrying that record. *)
C12_PlaceUsesSelectedColor ==
  (last.op = "place" /\ last.res = "ok") =>
     /\ CursorId \in DOMAIN voxels
     /\ voxels[CursorId].color \in {last.pre.selectedColor, selectedColor}
     /\ history = Append(last.pre.history, HistoryAction("PLACE", voxels[CursorId]))

(* C13: a delivered TrackingState makes its sampled color the selected one
   exactly when the sample is there, is neither white nor black, and the mode
   is COLOR, or BUILD with a GRAB; otherwise the selected color stays. *)
C13_AutoPickRule ==
  Delivered =>
    LET st == last.state
        adopt == /\ st.sampledColor # Undefined
                 /\ st.sampledColor # "#ffffff" /\ st.sampledColor # "#000000"
                 /\ (mode = "COLOR" \/ (mode = "BUILD" /\ st.gesture = "GRAB"))
    IN selectedColor = IF adopt THEN st.sampledColor ELSE last.pre.selectedColor

(* C14: undo with a non-empty History and redo with a non-empty Future take
   effect whatever the cooldown clock shows and leave the cooldown stamp
   alone. *)
C14_UndoRedoBypassGuards ==
  /\ (last.op = "undo" /\ Len(last.pre.history) > 0) =>
       LET act == last.pre.history[Len(last.pre.history)]
       IN /\ history = SliceFront(last.pre.history)
          /\ future = Append(last.pre.future, act)
          /\ voxels = IF act.type = "PLACE"
                        THEN MapDelete(last.pre.voxels, act.voxel.id)
                        ELSE MapSet(last.pre.voxels, act.voxel.id, act.voxel)
          /\ voxels # last.pre.voxels
          /\ elapsed = last.pre.elapsed
  /\ (last.op = "redo" /\ Len(last.pre.future) > 0) =>
       LET act == last.pre.future[Len(last.pre.future)]
       IN /\ future = SliceFront(last.pre.future)
          /\ history = Append(last.pre.history, act)
          /\ voxels = IF act.type = "PLACE"
                        THEN MapSet(last.pre.voxels, act.voxel.id, act.voxel)
                        ELSE MapDelete(last.pre.voxels, act.voxel.id)
          /\ voxels # last.pre.voxels
          /\ elapsed = last.pre.elapsed

(* An undo took effect inside the cooldown window of the edit it undoes. *)
C14_Witness ==
  /\ last.op = "undo" /\ last.res = "ok"
  /\ last.pre.elapsed < DEBOUNCE_MS
  /\ Len(future) = 1

(* C15: undo with an empty History and redo with an empty Future leave the
   store, History and Future as they were. *)
C15_EmptyStackNoop ==
  /\ (last.op = "undo" /\ Len(last.pre.history) = 0) => StoreAsBefore
  /\ (last.op = "redo" /\ Len(last.pre.future) = 0) => StoreAsBefore

(* Redo was invoked with an empty Future on a world that holds a record. *)
C15_Witness ==
  /\ last.op = "redo" /\ last.res = "empty"
  /\ Len(history) = 1
  /\ Cardinality(DOMAIN voxels) = 1

(* C16: undo right after an accepted delete(v) puts back the very record that
   was removed, so the store is the one before the delete; redo right after
   that removes it again. *)
C16_DeleteUndoRedo ==
  /\ (trip.op = "delete" /\ trip.n = 2) =>
       LET act == trip.snap[2][Len(trip.snap[2])]
       IN /\ act.type = "DELETE"
          /\ act.voxel.id \notin DOMAIN trip.snap[1]
          /\ voxels = trip.before
          /\ voxels[act.voxel.id] = act.voxel
          /\ history = SliceFront(trip.snap[2])
          /\ future = Append(trip.snap[3], act)
  /\ (trip.op = "delete" /\ trip.n = 3) =>
       /\ <<voxels, history, future>> = trip.snap
       /\ CursorId \notin DOMAIN voxels

(* delete(v); undo(); redo() has run on a record whose color is not the
   selected one. *)
C16_Witness ==
  /\ trip.op = "delete" /\ trip.n = 3
  /\ trip.before[CursorId].color # selectedColor

(* The frame that was delivered was classified with the thresholds of the
   current settings. *)
ClassifiedWithCurrentSettings ==
  (Delivered /\ Len(last.results) > 0) =>
     LET g == detectGesture(last.results[1], gestureSettings)
     IN last.state.gesture = g.type /\ last.state.confidence = g.confidence

(* The dispatcher attempted an edit only past the minConfidence of the current
   settings. *)
GatedWithCurrentSettings ==
  (last.op \in {"place", "delete"}) =>
     last.state.confidence >= MinConfidence(gestureSettings)

(* C17: once the settings are updated, the next frame is classified with the
   new thresholds and the next TrackingState is gated with the new
   minConfidence. *)
C17_SettingsNotCached ==
  ClassifiedWithCurrentSettings /\ GatedWithCurrentSettings

(* C18: an edit that passes the guards leaves the same store, History, Future
   and cooldown stamp whatever the remote call returns. *)
C18_RemoteResultIgnored ==
  /\ (/\ last.op = "place" /\ last.pre.elapsed >= DEBOUNCE_MS
      /\ CursorId \notin DOMAIN last.pre.voxels) =>
       /\ CursorId \in DOMAIN voxels
       /\ voxels = MapSet(last.pre.voxels, CursorId, voxels[CursorId])
       /\ history = Append(last.pre.history, HistoryAction("PLACE", voxels[CursorId]))
       /\ future = <<>>
       /\ elapsed = 0
  /\ (/\ last.op = "delete" /\ last.pre.elapsed >= DEBOUNCE_MS
      /\ CursorId \in DOMAIN last.pre.voxels) =>
       /\ voxels = MapDelete(last.pre.voxels, CursorId)
       /\ history = Append(last.pre.history,
                           HistoryAction("DELETE", last.pre.voxels[CursorId]))
       /\ future = <<>>
       /\ elapsed = 0

(* A delete was accepted and its remote call returned false. *)
C18_Witness ==
  /\ last.op = "delete" /\ last.res = "ok"
  /\ last.api = FALSE

(* What a page load would take from the stored item is the current store. *)
PersistedIsStore ==
  loadWorld(persisted, "ok") = [from |-> "storage", map |-> voxels]

(* At most one save is pending, it is the save of the current store set for
   1000 ms after the change, and when
   none is pending the stored item holds the current store. *)
SavePending ==
  /\ Cardinality(timers) <= 1
  /\ \A t \in timers : t.snapshot = voxels /\ t.delay = 1000
  /\ timers = {} => PersistedIsStore

(* C19: every change of the store leaves exactly one save pending, the save of
   the changed store set for one second later, any earlier one cancelled; and once the store stops
   changing, the stored item comes to hold the store and keeps holding it. *)
C19_DebouncedSave ==
  /\ []SavePending
  /\ <>[][voxels' = voxels]_vars => <>[]PersistedIsStore

(* A save fired after an undo and stored the world as it is, one record. *)
C19_Witness ==
  /\ last.op = "save"
  /\ timers = {}
  /\ Len(future) = 1
  /\ Cardinality(DOMAIN voxels) = 1
  /\ persisted = Stringify(voxels)

(* A stored item that is the JSON text of an array of voxel records *)
WellFormed(saved) ==
  /\ saved.kind = "json"
  /\ saved.value.t = "array"
  /\ \A i \in 1..Len(saved.value.items) : IsRecord(saved.value.items[i])

(* C20: page load takes a well-formed stored snapshot as the store without
   asking the remote service; any other item is discarded, the remote service
   is asked, and the world is what it returns: empty, also when it fails. *)
C20_LoadWorld ==
  (last.op = "load") =>
     IF WellFormed(persisted)
       THEN /\ last.res = "storage"
            /\ DOMAIN voxels =
                 {persisted.value.items[i].id : i \in 1..Len(persisted.value.items)}
            /\ \A i \in 1..Len(persisted.value.items) :
                 voxels[persisted.value.items[i].id] = persisted.value.items[i]
       ELSE /\ last.res \in {"remote-ok", "remote-error"}
            /\ voxels = EmptyMap

(* Squared distance of fingertip `tip` from the wrist, and of the thumb tip
   from the index tip, in the hand of the latest detectGesture call *)
ExtSq(tip) == getDistanceSq(Lm(call.landmarks, 0), Lm(call.landmarks, tip))
PinchSq == getDistanceSq(Lm(call.landmarks, 4), Lm(call.landmarks, 8))
Under(dSq, t) == dSq < t * t
Over(dSq, t) == dSq > t * t
ClassifiedHand == call.fn = "detectGesture" /\ call.landmarks # NoLandmarks
GrabCondition ==
  \A tip \in {8, 12, 16, 20} : Under(ExtSq(tip), call.settings.grabThreshold)

(* C21: classify returns (NONE, 0) for every pose that is absent or has not
   exactly 21 landmarks, fewer or more, whatever the values and settings. *)
C21_MalformedPoseIsNone ==
  (call.fn = "detectGesture" /\ (call.landmarks = NoLandmarks \/ Len(call.landmarks) # 21))
     => call.ret = Result("NONE", 0)

(* C22: a 21-point pose whose index, middle, ring and pinky are all closer to
   the wrist than grabThreshold is (GRAB, 0.9), also when the thumb and index
   tips are closer than pinchThreshold. *)
C22_GrabBeforePinch ==
  (ClassifiedHand /\ Len(call.landmarks) = 21 /\ GrabCondition)
     => call.ret = Result("GRAB", 90)

(* A fist whose thumb tip lies on the index tip was classified. *)
C22_Witness ==
  /\ ClassifiedHand /\ Len(call.landmarks) = 21 /\ GrabCondition
  /\ Under(PinchSq, call.settings.pinchThreshold)
  /\ call.ret.type = "GRAB"

(* C23: a 21-point pose whose thumb and index tips are closer than
   pinchThreshold and that is no fist is (PINCH, 0.95), whatever the other
   extensions. *)
C23_PinchUnlessGrab ==
  (/\ ClassifiedHand /\ Len(call.landmarks) = 21 /\ ~GrabCondition
   /\ Under(PinchSq, call.settings.pinchThreshold))
     => call.ret = Result("PINCH", 95)

(* A pinch with the ring and pinky stretched out was classified. *)
C23_Witness ==
  /\ ClassifiedHand /\ Len(call.landmarks) = 21 /\ ~GrabCondition
  /\ Under(PinchSq, call.settings.pinchThreshold)
  /\ Over(ExtSq(16), CurlThreshold) /\ Over(ExtSq(20), CurlThreshold)
  /\ call.ret.type = "PINCH"

(* C24: for every hand of the grid and every pair of thresholds the result is
   that of the first matching rule, in the order GRAB 0.9, PINCH 0.95,
   VICTORY 0.85, POINT 0.8, THUMBS_UP 0.8, OPEN_HAND 0.95, else NONE 0. *)
C24_RuleTable ==
  (ClassifiedHand /\ Len(call.landmarks) = 21) =>
    LET gt == call.settings.grabThreshold
        pt == call.settings.pinchThreshold
        te == ExtSq(4)
        ie == ExtSq(8)
        me == ExtSq(12)
        re == ExtSq(16)
        pe == ExtSq(20)
    IN call.ret =
         IF GrabCondition THEN Result("GRAB", 90)
         ELSE IF Under(PinchSq, pt) THEN Result("PINCH", 95)
         ELSE IF Over(ie, gt) /\ Over(me, gt) /\ Under(re, 200) /\ Under(pe, 200)
           THEN Result("VICTORY", 85)
         ELSE IF Over(ie, gt) /\ ~Over(me, gt) /\ Under(re, 200) /\ Under(pe, 200)
           THEN Result("POINT", 80)
         ELSE IF /\ Over(te, 200) /\ ~Over(ie, gt) /\ ~Over(me, gt)
                 /\ ~Over(re, 200) /\ ~Over(pe, 200)
           THEN Result("THUMBS_UP", 80)
         ELSE IF Over(ie, gt) /\ Over(me, gt) /\ Over(re, 200) /\ Over(pe, 200)
           THEN Result("OPEN_HAND", 95)
         ELSE Result("NONE", 0)

(* A thumbs-up whose ring tip is between the grab threshold and 0.2 from the
   wrist was classified. *)
C24_Witness ==
  /\ ClassifiedHand /\ Len(call.landmarks) = 21
  /\ call.ret = Result("THUMBS_UP", 80)
  /\ Over(ExtSq(16), call.settings.grabThreshold)
  /\ Under(ExtSq(16), 200)

(* The latest step was a pass of the frame loop on such results. *)
NoPosePass == call.fn = "predictWebcam" /\ call.results = <<>>
FullPosePass ==
  call.fn = "predictWebcam" /\ Len(call.results) > 0 /\ Len(call.results[1]) = 21
PartialPosePass ==
  /\ call.fn = "predictWebcam" /\ Len(call.results) > 0
  /\ Len(call.results[1]) \in 1..20

(* C25: a frame without a pose calls onUpdate, with {isTracking: true,
   landmarks: [], gesture: NONE, confidence: 0}, exactly when the gesture of
   the onUpdate call before it was not NONE; so after it further frames
   without a pose emit nothing until a gesture other than NONE was emitted. *)
C25_NoPoseEmitsOnce ==
  NoPosePass =>
    /\ call.emit = (call.prev \notin {"NONE", "nothing"})
    /\ call.emit => call.state = TrackingState(<<>>, "NONE", 0, Undefined)

(* A frame without a pose was suppressed after NONE had been emitted. *)
C25_Witness ==
  NoPosePass /\ ~call.emit /\ call.prev = "NONE"

(* C26: a frame with a pose calls onUpdate exactly when its gesture differs
   from the gesture of the onUpdate call before it, or is PINCH or GRAB, or
   sampling is active. *)
C26_EmissionRule ==
  FullPosePass =>
    LET g == detectGesture(call.results[1], gestureSettings)
        prev == IF call.prev = "nothing" THEN "NONE" ELSE call.prev
    IN /\ call.emit = (\/ g.type # prev
                       \/ g.type \in {"PINCH", "GRAB"}
                       \/ isSamplingActive(call.mode))
       /\ call.emit => /\ call.state.gesture = g.type
                       /\ call.state.confidence = g.confidence
                       /\ call.state.landmarks = call.results[1]

(* With sampling inactive a second VICTORY in a row was suppressed. *)
C26_Witness ==
  /\ FullPosePass /\ ~call.emit /\ ~isSamplingActive(call.mode)
  /\ call.prev = "VICTORY"
  /\ detectGesture(call.results[1], gestureSettings).type = "VICTORY"

(* C30: a result with a partial pose is handled like one without a pose: the
   pass throws nothing, the loop goes on, and no edit and no color change
   come of it. *)
C30_PartialPoseAsAbsent ==
  PartialPosePass =>
    /\ ~call.threw
    /\ call.running
    /\ voxels = call.before.voxels
    /\ history = call.before.history
    /\ selectedColor = call.before.selectedColor

(* The average of channel ch over the rolling buffer is above / below a bound *)
MeanAbove(ch, bound) == ChannelSum(colorHistory, ch) > bound * Len(colorHistory)
MeanBelow(ch, bound) == ChannelSum(colorHistory, ch) < bound * Len(colorHistory)

(* C27: the sampler returns no color when the averages of its rolling buffer
   are all above 245 or all below 10. *)
C27_NoNoiseColor ==
  (/\ call.fn = "sampleColorAt"
   /\ colorHistory # <<>>
   /\ \/ \A ch \in 1..3 : MeanAbove(ch, 245)
      \/ \A ch \in 1..3 : MeanBelow(ch, 10))
     => call.ret = Undefined

(* The buffer is full, its latest sample has a channel at 240, its averages
   are all above 245, and the sampler returned nothing. *)
C27_Witness ==
  /\ call.fn = "sampleColorAt"
  /\ Len(colorHistory) = HISTORY_SIZE
  /\ call.window = Window(OffWhite)
  /\ \A ch \in 1..3 : MeanAbove(ch, 245)
  /\ call.ret = Undefined

(* The latest toScreenSpace call left x / y as it was. *)
SameX == QEq(call.ret.x, call.x)
SameY == QEq(call.ret.y, call.y)
PositiveSizes ==
  call.videoW > 0 /\ call.videoH > 0 /\ call.screenW > 0 /\ call.screenH > 0

(* C28: for sizes above 0, toScreen returns (x, y) when screenW/screenH equals
   videoW/videoH; when the screen aspect is strictly greater than the video
   aspect x is returned as it is; otherwise y is returned as it is. *)
C28_AspectCases ==
  (call.fn = "toScreenSpace" /\ PositiveSizes) =>
    /\ (call.screenW * call.videoH = call.videoW * call.screenH) => SameX /\ SameY
    /\ (call.screenW * call.videoH > call.videoW * call.screenH) => SameX
    /\ (call.screenW * call.videoH <= call.videoW * call.screenH) => SameY

(* A screen wider than the video: y moved, x did not. *)
C28_Witness ==
  /\ call.fn = "toScreenSpace" /\ PositiveSizes
  /\ call.screenW * call.videoH > call.videoW * call.screenH
  /\ SameX /\ ~SameY

(* C29: toScreen returns (x, y) whenever one of the four sizes is 0 or
   negative. *)
C29_DegeneratePassThrough ==
  (call.fn = "toScreenSpace" /\ ~PositiveSizes) => SameX /\ SameY

(* C33: the rolling buffer never holds more than 10 entries; a call that read
   its window appends the window's mean, also when it then returns nothing,
   and evicts the oldest entry when the buffer was full; a call that could not
   read its window leaves the buffer as it was. *)
C33_RollingBuffer ==
  /\ [](Len(colorHistory) <= 10)
  /\ [][(call'.fn = "sampleColorAt") =>
          IF call'.window.readable
            THEN colorHistory' =
                   Append(IF Len(colorHistory) = 10 THEN Tail(colorHistory)
                          ELSE colorHistory,
                          call'.window.mean)
            ELSE colorHistory' = colorHistory]_vars

(* The buffer is full and its latest entry is a sample whose averages were
   rejected. *)
C33_Witness ==
  /\ call.fn = "sampleColorAt" /\ call.window.readable
  /\ call.ret = Undefined
  /\ Len(colorHistory) = 10
  /\ colorHistory[1] = Black
  /\ colorHistory[10] = call.window.mean

(* The gesture of the frame of the latest pass: the classifier's result for a
   detected pose, NONE without one *)
FrameGesture ==
  IF call.results = <<>> THEN "NONE"
  ELSE detectGesture(call.results[1], gestureSettings).type

(* C39: after every pass of the frame loop the gesture last given to the
   consumer, and the label the consumer shows, is the gesture of that frame. *)
C39_LabelNeverStale ==
  (call.fn = "predictWebcam") =>
    /\ (IF call.emitted = "nothing" THEN "NONE" ELSE call.emitted) = FrameGesture
    /\ currentGesture = FrameGesture

(* C40: a place rejected because its cell is occupied and a delete rejected
   because its cell is empty leave the time of the last accepted edit as it
   was, so an attempt that passes its occupancy test DEBOUNCE_MS or more after
   the last accepted edit is accepted, whatever was rejected in between. *)
C40_RejectedKeepsStamp ==
  /\ (last.op \in {"place", "delete"} /\ last.res \in {"occupied", "empty"}) =>
       (elapsed = last.pre.elapsed /\ StoreAsBefore)
  /\ (last.op = "place" /\ last.pre.elapsed >= DEBOUNCE_MS
        /\ CursorId \notin DOMAIN last.pre.voxels) =>
       (last.res = "ok" /\ elapsed = 0)
  /\ (last.op = "delete" /\ last.pre.elapsed >= DEBOUNCE_MS
        /\ CursorId \in DOMAIN last.pre.voxels) =>
       (last.res = "ok" /\ elapsed = 0)

(* A place on an occupied cell was rejected DEBOUNCE_MS after the edit that
   filled it, and the clock still reads DEBOUNCE_MS. *)
C40_Witness ==
  /\ last.op = "place" /\ last.res = "occupied"
  /\ last.pre.elapsed = DEBOUNCE_MS /\ elapsed = DEBOUNCE_MS
  /\ Len(history) = 1 /\ history[1].type = "PLACE"

RECURSIVE Reverse(_)
Reverse(seq) == IF seq = <<>> THEN <<>> ELSE Append(Reverse(Tail(seq)), Head(seq))

(* C36: whatever the frame loop has queued when the button is clicked, an
   undo moves the top action of History to the top of Future and a redo moves
   the top action of Future to the top of History, so History followed by the
   reversed Future is the same sequence before and after. *)
C36_UndoRedoConserve ==
  /\ (last.op = "undo") =>
       /\ history = SliceFront(last.pre.history)
       /\ future = Append(last.pre.future, last.pre.history[Len(last.pre.history)])
  /\ (last.op = "redo") =>
       /\ future = SliceFront(last.pre.future)
       /\ history = Append(last.pre.history, last.pre.future[Len(last.pre.future)])
  /\ (last.op \in {"undo", "redo"}) =>
       history \o Reverse(future) = last.pre.history \o Reverse(last.pre.future)

(* C37: the keys of voxelsRef are the keys of the store, updates in the queue
   included, in every state, so at every evaluation of a place or delete
   guard; a place at a free cell outside the cooldown is accepted and a delete
   at a free cell queues no change of the store or of the stacks, also at a
   cell freed by an undo. *)
C37_OccupancyView ==
  /\ DOMAIN voxelsRef = DOMAIN Queued.voxels
  /\ (last.op = "place" /\ last.pre.elapsed >= DEBOUNCE_MS
        /\ CursorId \notin DOMAIN last.pre.voxels) =>
       (last.res = "ok" /\ CursorId \in DOMAIN Queued.voxels)
  /\ (last.op = "delete" /\ CursorId \notin DOMAIN last.pre.voxels) =>
       /\ last.res # "ok"
       /\ Queued.voxels = last.pre.voxels
       /\ Queued.history = last.pre.history
       /\ Queued.future = last.pre.future

(* A place was accepted at the cell whose PLACE action an undo had moved to
   Future. *)
C37_Witness ==
  /\ last.op = "place" /\ last.res = "ok"
  /\ last.pre.history = <<>>
  /\ Len(last.pre.future) = 1
  /\ last.pre.future[1].type = "PLACE" /\ last.pre.future[1].voxel.id = CursorId
  /\ CursorId \in DOMAIN voxelsRef

(* A delete was attempted outside the cooldown at the cell an undo had freed. *)
C37_WitnessDelete ==
  /\ last.op = "delete" /\ last.res = "empty"
  /\ Len(last.pre.future) = 1
  /\ last.pre.future[1].type = "PLACE" /\ last.pre.future[1].voxel.id = CursorId

(* The inverses of the actions of hist applied to vox from the last action to
   the first: whether each PLACE finds its record, each DELETE finds its cell
   free, and the walk ends at the world `start`. *)
RECURSIVE Replays(_, _, _)
Replays(hist, vox, start) ==
  IF hist = <<>> THEN vox = start
  ELSE LET action == hist[Len(hist)]
           id == action.voxel.id
       IN IF action.type = "PLACE"
            THEN /\ id \in DOMAIN vox
                 /\ vox[id] = action.voxel
                 /\ Replays(SliceFront(hist), MapDelete(vox, id), start)
            ELSE /\ id \notin DOMAIN vox
                 /\ Replays(SliceFront(hist), MapSet(vox, id, action.voxel), start)

(* C38: in every state the inverses of the actions of History, last to first,
   lead from the store back to the world loaded at startup (here the empty
   world), every PLACE finding its record and every DELETE finding its cell
   free. *)
C38_HistoryReplayable ==
  Replays(history, voxels, EmptyMap)

(* C35: for a point of the unit square the window handed to getImageData lies
   within columns 0..width-1 and rows 0..height-1 of the source, and neither
   side is longer than 2 * radius + 1. *)
C35_WindowInBounds ==
  (call.fn = "sampleWindow" /\ call.ret.read) =>
    /\ call.ret.startX >= 0 /\ call.ret.startY >= 0
    /\ call.ret.startX + call.ret.w - 1 <= call.width - 1
    /\ call.ret.startY + call.ret.h - 1 <= call.height - 1
    /\ call.ret.w <= 2 * call.radius + 1
    /\ call.ret.h <= 2 * call.radius + 1

(* What does hold: the window starts inside the source, has a side of at most
   2 * radius + 1 and ends at most one column and one row past the source. *)
C35_WindowOneOver ==
  (call.fn = "sampleWindow") =>
    /\ call.ret.read
    /\ call.ret.startX >= 0 /\ call.ret.startY >= 0
    /\ call.ret.startX + call.ret.w - 1 <= call.width
    /\ call.ret.startY + call.ret.h - 1 <= call.height
    /\ call.ret.w >= 1 /\ call.ret.w <= 2 * call.radius + 1
    /\ call.ret.h >= 1 /\ call.ret.h <= 2 * call.radius + 1

(* C32: at most one frame loop waits for its next animation frame, and no
   pass of predictWebcam belongs to a run of the tracking effect whose cleanup
   has run. *)
C32_OneLiveLoop ==
  /\ Cardinality(frameRequests) <= 1
  /\ (call.fn = "tick") => ~call.tornDown

(* C31: while permissionError is set tracking is off, no frame loop waits and
   no pass runs; the Retry Camera button turns tracking on and starts a new
   camera acquisition, and a pass of the run it started processes frames once
   the camera is granted.  While modelLoadError is set there is no landmarker,
   no camera acquisition pending or live and no pass. *)
C31_ErrorsStopTracking ==
  /\ permissionError => (~isActive /\ frameRequests = {})
  /\ (call.fn = "tick") => (~call.permissionError /\ ~call.modelLoadError)
  /\ (call.fn = "camera" /\ call.step = "retry") =>
       /\ isActive /\ ~permissionError
       /\ runs # <<>>
       /\ runs[Len(runs)] =
            Run(Closure(mode, selectedColor, gestureSettings), "retry")
  /\ modelLoadError =>
       /\ ~handLandmarker /\ frameRequests = {}
       /\ \A r \in DOMAIN runs : runs[r].stream \notin {"pending", "live"}
  /\ (call.fn = "camera" /\ call.step = "reload") => (isModelLoading /\ ~modelLoadError)

(* A pass of the run started by Retry Camera processed a frame, the run before
   it having been denied the camera. *)
C31_Witness ==
  /\ call.fn = "tick" /\ call.processed
  /\ call.run = 2 /\ runs[2].by = "retry"
  /\ runs[1].stream = "failed"

(* C34: nothing but a sample of a pass changes the rolling buffer, and a
   sample appends to what the buffer held: switching the mode, pausing and
   resuming sampling, turning tracking off and on, camera errors and retries
   all leave it as it was, and the color a pass returns after sampling has
   resumed is the average over the earlier entries and the new one. *)
C34_BufferNeverCleared ==
  [][/\ (colorHistory' # colorHistory) =>
          /\ call'.fn = "tick" /\ call'.sampled
          /\ colorHistory' = Push(colorHistory, call'.window.mean)
     /\ (call'.fn = "tick" /\ call'.sampled /\ call'.sample # Undefined) =>
          call'.sample = rgbToHex(Append(colorHistory, call'.window.mean))]_vars

(* The first sample of a run that resumed sampling was averaged with the
   entry an earlier run had pushed. *)
C34_Witness ==
  /\ call.fn = "tick" /\ call.resumed
  /\ call.before = <<Black>>
  /\ call.window = Window(OffWhite)
  /\ colorHistory = <<Black, OffWhite>>
  /\ call.sample = rgbToHex(<<Black, OffWhite>>)
  /\ call.sample # rgbToHex(<<OffWhite>>)

====
